---- MODULE Spec2Model ----
(***************************************************************************)
(* The partitioned TLog server of fdbserver/ptxn/TLogServer.actor.cpp as a *)
(* state machine.                                                          *)
(*                                                                         *)
(* The server is a single-threaded cooperative program: an actor runs      *)
(* until it waits on something that is not ready, and setting a notified   *)
(* value or firing a trigger resumes the waiting actors inside the call.   *)
(* The model keeps that: a top-level event (a request arriving, a delay    *)
(* expiring, a disk operation finishing) is taken only when `stack' is     *)
(* empty, and the resumptions it causes are run from `stack' to the end    *)
(* before the next top-level event.                                        *)
(***************************************************************************)
EXTENDS Integers, Sequences, FiniteSets, TLC

\* ---------------------------------------------------------------- bounds
MaxRecruit == 2   \* InitializeTLog requests with a new recruitmentID
MaxRequests == 3  \* requests of both kinds sent to the server
MaxVersion == 2   \* largest commit version the proxies send
MaxQueueEntries == 2  \* entries a user of the TLogQueue holds to be in it
MaxCrashes == 2       \* crashes of a TLogQueue
MaxPeeks == 1         \* TLogPeekRequests sent to the server
MaxWrites == 4        \* write requests of the LCCV model
MaxStepChoices == 2   \* version steps getCommitVersion chooses from
MaxBackupVersion == 3  \* versions a backup worker pulls
MaxBackupEpoch == 2    \* log epochs of backup workers
MaxDbInfoChanges == 2  \* ServerDBInfo changes a backup worker sees
MaxForgetVersion == 6  \* versions entered into a versionLocation map

\* ------------------------------------------------- scaled program constants
\* invalidVersion, the savedVersion of a new BackupData
invalidVersion == -1
\* getCommitVersion: the smallest step of writeVersion
MIN_VERSION_STEP == 10
TLOG_HARD_LIMIT_BYTES == 3
MAX_QUEUE_COMMIT_BYTES == 1
TLOG_MESSAGE_BLOCK_OVERHEAD_FACTOR == 1
VERSION_MESSAGES_ENTRY_BYTES_WITH_OVERHEAD == 1
\* sizeof(uint32_t), the size field of a packet
sizeofUint32 == 4

\* ------------------------------------------------------------ input sets
Groups == {"G1", "G2"}
\* req.tlogGroups of an InitializeTLogRequest
GroupLists == {<<"G1">>, <<"G2">>, <<"G1", "G2">>}
\* tLogStart gives the k-th group of a request the storage team UID(1, k + 2)
TeamIDs == {3, 4}
Versions == 0..MaxVersion
\* the messages of a commit with the knownCommittedVersion and the
\* minKnownCommittedVersion it carries
Payloads == {<<<<>>, 1, 1>>, <<<<"a">>, 0, 0>>, <<<<"b", "b">>, 2, 0>>}

VARIABLES
    tlogCache,    \* self->tlogCache: recruitmentID -> interface
    tlogGroups,   \* self->tlogGroups: group id -> its TLogGroupData (0: none)
    grp,          \* the TLogGroupData objects, by <<interface, group>>
    gen,          \* the LogGenerationData objects, by <<interface, group>>
    tli,          \* the recruited interfaces and their activeGeneration
    cq,           \* the commitQueue actors, by <<interface, group, n>>
    dqc,          \* the doQueueCommit actors, by <<interface, group, number>>
    tgs,          \* the tlogGroupStart actors, by <<interface, group>>
    reqs,         \* the commit requests received, with their tLogCommit actor
    replyLog,     \* the request numbers in the order their replies were sent
    stack,        \* the resumptions still to run inside the current event
    terminated    \* the tLog actor has returned

\* the InitializeTLog requests whose recruitmentID tLog had seen before
VARIABLES
    forwards      \* those requests, each with the interface it is given

\* a TLogQueue over its IDiskQueue, from recovery to crash
VARIABLES
    queue,             \* the bytes of the IDiskQueue, from its first location
    durableBytes,      \* how many of them a commit() that returned covers
    nextReadLocation,  \* the bytes queue->readNext has consumed
    recovering,        \* readNext has not thrown end_of_stream yet
    yielded,           \* the entries readNext has returned since the restart
    pushedEntries,     \* the entries the queue's user holds to be in it
    committedEntries,  \* those whose push came before a commit that returned
    atCrash,           \* pushedEntries and committedEntries at the last crash
    crashes            \* the crashes so far

queueVars == <<queue, durableBytes, nextReadLocation, recovering, yielded,
               pushedEntries, committedEntries, atCrash, crashes>>

\* a rejoinMasters actor with the ServerDBInfo it looks at
VARIABLES
    rejoin

\* a DecodeProgress over one backup log file
VARIABLES
    decoder

\* the TLogPeekRequests sent to the peekMessages streams of the interfaces
VARIABLES
    peeks

\* the SharedState of the LCCV model with its write requests
VARIABLES
    lccv

\* a backup worker: its BackupData, the log system and the saved progress
VARIABLES
    backup

\* a versionLocation map under TLogQueue::forgetBefore
VARIABLES
    forget

toolVars == <<lccv, backup, forget>>

otherVars == <<queueVars, rejoin, decoder, peeks, toolVars>>

vars == <<tlogCache, tlogGroups, grp, gen, tli, cq, dqc, tgs, reqs, replyLog,
          stack, terminated, forwards, otherVars>>

Max(a, b) == IF a >= b THEN a ELSE b

Range(s) == {s[k] : k \in DOMAIN s}

\* ------------------------------------------------------------ the objects

\* TLogGroupData's constructor
NewGroupData ==
    [queueCommitBegin |-> 0, queueCommitEnd |-> 0,
     diskQueueCommitBytes |-> 0, largeDiskQueueCommitBytes |-> FALSE,
     bytesInput |-> 0, bytesDurable |-> 0]

\* LogGenerationData's constructor, and its registration in id_data
NewGenerationData(team) ==
    [stopped |-> FALSE, initialized |-> FALSE, inIdData |-> TRUE,
     persisted |-> FALSE,
     version |-> 0, queueCommittedVersion |-> 0, queueCommittingVersion |-> 0,
     knownCommittedVersion |-> 0, durableKnownCommittedVersion |-> 0,
     minKnownCommittedVersion |-> 0,
     team |-> team, versionMessages |-> <<>>,
     recoveryComplete |-> "unset", committingQueue |-> "unset"]

\* an actor: a commitQueue loop ("cq", n-th of its group), a doQueueCommit
\* ("dqc", commit number n), a tLogCommit ("tc", request n), a tlogGroupStart
Actor(t, l, n) == [t |-> t, i |-> l[1], g |-> l[2], n |-> n]
NoLog == <<0, "">>
LogOf(a) == <<a.i, a.g>>

\* frames of `stack': a call that is resuming its waiters, or an actor that
\* goes on at a label once the frames above it are done
NotifyFrame(pend) == [k |-> "notify", pend |-> pend, a |-> Actor("", NoLog, 0), pc |-> ""]
ContFrame(a, label) == [k |-> "cont", pend |-> {}, a |-> a, pc |-> label]
Waiter(lim, a, label) == [lim |-> lim, a |-> a, pc |-> label]

\* no event is being handled, and the tLog actor is there to take the next
Idle == stack = <<>> /\ terminated = "running"
\* a failed ASSERT ends the process; tLog's return leaves the commitQueue
\* and doQueueCommit actors, which the TLogGroupData objects hold
Crashed == terminated = "assertion_failed"
Top == stack[Len(stack)]
Pop == SubSeq(stack, 1, Len(stack) - 1)
Running(t, label) ==
    /\ ~Crashed
    /\ stack # <<>>
    /\ Top.k = "cont" /\ Top.a.t = t /\ Top.pc = label
\* the frames a call pushes: the caller's continuation, and over it the
\* waiters the call resumes
Call(rest, a, label, pend) ==
    IF pend = {} THEN Append(rest, ContFrame(a, label))
    ELSE Append(Append(rest, ContFrame(a, label)), NotifyFrame(pend))
\* a notified value resumes its waiters in the order of their limits
NextWaiters == {w \in Top.pend : \A x \in Top.pend : w.lim <= x.lim}
AfterFire(w) ==
    IF Top.pend = {w} THEN Pop
    ELSE [stack EXCEPT ![Len(stack)].pend = @ \ {w}]

\* the server before its first request, and a TLogQueue before its recovery
InitServerAndQueue ==
    /\ tlogCache = <<>>
    /\ tlogGroups = [g \in Groups |-> 0]
    /\ grp = <<>>
    /\ gen = <<>>
    /\ tli = <<>>
    /\ cq = <<>>
    /\ dqc = <<>>
    /\ tgs = <<>>
    /\ reqs = <<>>
    /\ replyLog = <<>>
    /\ stack = <<>>
    /\ terminated = "running"
    /\ forwards = <<>>
    /\ peeks = <<>>
    /\ queue = <<>>
    /\ durableBytes = 0
    /\ nextReadLocation = 0
    /\ recovering = TRUE
    /\ yielded = <<>>
    /\ pushedEntries = <<>>
    /\ committedEntries = <<>>
    /\ atCrash = [pushed |-> <<>>, committed |-> <<>>]
    /\ crashes = 0

\* no rejoinMasters actor is looked at
NoRejoin == [pc |-> "none"]

\* no log file is decoded
NoDecoder == [pc |-> "none"]

\* no LCCV model, no backup worker and no forgetBefore call is running
NoLccv == [pc |-> "none"]
NoBackup == [pc |-> "none"]
NoForget == [pc |-> "none"]
NoTools == lccv = NoLccv /\ backup = NoBackup /\ forget = NoForget

Init == InitServerAndQueue /\ rejoin = NoRejoin /\ decoder = NoDecoder /\ NoTools

\* ---------------------------------------------------------- recruitment

\* the storage team tLogStart gives the group g of the request's list gl
TeamOf(gl, g) == 2 + (CHOOSE k \in DOMAIN gl : gl[k] = g)

\* the generations stopAllTLogs visits: those in the id_data of the
\* TLogGroupData objects that self->tlogGroups (tg) holds
StopTargets(tg) == {l \in DOMAIN gen : gen[l].inIdData /\ tg[l[2]] = l[1]}

\* stopAllTLogs, on the generations
StoppedGens(T) ==
    [l \in DOMAIN gen |->
        IF l \in T
        THEN [gen[l] EXCEPT
                !.committingQueue =
                    IF ~gen[l].stopped /\ @ = "unset" THEN "error" ELSE @,
                !.stopped = TRUE,
                !.recoveryComplete = IF @ = "unset" THEN "error" ELSE @]
        ELSE gen[l]]

\* committingQueue.sendError(worker_removed()) reaches a tlogGroupStart that
\* waits for committingQueue: it goes to its catch block, wait(delay(0.0))
StoppedStarts(T) ==
    [l \in DOMAIN tgs |->
        IF l \in T /\ tgs[l] = "waitCQ" /\ ~gen[l].stopped
           /\ gen[l].committingQueue = "unset"
        THEN "removing" ELSE tgs[l]]

\* a stop without stopCommit.trigger()
StopWaitersNone(T) == {}

\* stopCommit.trigger() reaches the tLogCommit actors that wait for the queue
\* commit: each sends tlog_stopped
StopWaiters(T) == {r \in DOMAIN reqs : reqs[r].pc = "waitQueue" /\ reqs[r].l \in T}

RECURSIVE ByNumber(_)
ByNumber(S) ==
    IF S = {} THEN <<>>
    ELSE LET m == CHOOSE x \in S : \A y \in S : x <= y
         IN  <<m>> \o ByNumber(S \ {m})

Error(kind) == [kind |-> kind, version |-> 0]
NoReply == Error("none")

StoppedReqs(T) ==
    [r \in DOMAIN reqs |->
        IF r \in StopWaiters(T)
        THEN [reqs[r] EXCEPT !.pc = "done", !.reply = Error("tlog_stopped")]
        ELSE reqs[r]]

\* tLog's handler of an InitializeTLogRequest whose recruitmentID is new, up
\* to tLogStart's wait for the tlogGroupStart actors.  Nothing else reads the
\* new TLogGroupData objects before tLogStart runs, so the handler's waits
\* for the group recoveries are not steps of their own: both commitQueue
\* loops of a group (tLog's and tlogGroupRecovery's) have found id_data empty
\* and wait for newLogData when tLogStart registers the generation.
InitializeTLog(rid, gl) ==
    /\ Idle
    /\ Len(tlogCache) < MaxRecruit
    /\ Len(tlogCache) + Len(reqs) + Len(forwards) < MaxRequests
    /\ rid \notin Range(tlogCache)
    /\ rid = Len(tlogCache) + 1
    /\ LET i == Len(tlogCache) + 1
           new == {<<i, gl[k]>> : k \in DOMAIN gl}
           tg == [g \in Groups |-> IF g \in Range(gl) THEN i ELSE tlogGroups[g]]
           T == StopTargets(tg)
       IN  /\ tlogCache' = Append(tlogCache, rid)
           /\ tlogGroups' = tg
           /\ grp' = grp @@ [l \in new |-> NewGroupData]
           /\ cq' = cq @@ [a \in {Actor("cq", l, c) : l \in new, c \in 1..2} |->
                              [pc |-> "waitNew", limit |-> 0,
                               missingFinalCommit |-> {}]]
           /\ gen' = StoppedGens(T) @@
                     [l \in new |-> NewGenerationData(TeamOf(gl, l[2]))]
           /\ tgs' = StoppedStarts(T) @@ [l \in new |-> "init"]
           /\ tli' = Append(tli, [recruitmentID |-> rid, tlogGroups |-> gl,
                                  serving |-> FALSE, removed |-> 0,
                                  displaced |-> FALSE])
           /\ reqs' = StoppedReqs(T)
           /\ replyLog' = replyLog \o ByNumber(StopWaiters(T))
    /\ UNCHANGED <<dqc, stack, terminated>>
    /\ UNCHANGED <<forwards, otherVars>>

\* a cache that gives every request the first interface it holds
tlogCacheGetFirst(rid) == 1

\* self->tlogCache.get(req.recruitmentID): the interface whose recruitment
\* set the entry
tlogCacheGet(rid) == CHOOSE i \in DOMAIN tlogCache : tlogCache[i] = rid

\* tLog's handler of an InitializeTLogRequest whose recruitmentID is in
\* tlogCache: forwardPromise(req.ptxnReply, self->tlogCache.get(...))
InitializeTLogSeen(rid, gl) ==
    /\ Idle
    /\ Len(tlogCache) + Len(reqs) + Len(forwards) < MaxRequests
    /\ rid \in Range(tlogCache)
    /\ forwards' = Append(forwards, [recruitmentID |-> rid, tlogGroups |-> gl,
                                     interface |-> tlogCacheGet(rid)])
    /\ UNCHANGED <<tlogCache, tlogGroups, grp, gen, tli, cq, dqc, tgs, reqs,
                   replyLog, stack, terminated>>
    /\ UNCHANGED otherVars

\* tLog's activeSharedChange branch when another shared TLog became the
\* active one: stopAllTLogs(self, tlogId)
ActiveSharedChange ==
    /\ Idle
    /\ LET T == StopTargets(tlogGroups)
       IN  /\ gen' = StoppedGens(T)
           /\ tgs' = StoppedStarts(T)
           /\ reqs' = StoppedReqs(T)
           /\ replyLog' = replyLog \o ByNumber(StopWaiters(T))
    /\ UNCHANGED <<tlogCache, tlogGroups, grp, tli, cq, dqc, stack, terminated>>
    /\ UNCHANGED <<forwards, otherVars>>

\* the actors a trigger or a set resumes leave their wait
MarkFired(pend) ==
    [a \in DOMAIN cq |->
        IF \E w \in pend : w.a = a THEN [cq[a] EXCEPT !.pc = "fired"] ELSE cq[a]]
MarkFiredCommits(pend) ==
    [r \in DOMAIN reqs |->
        IF \E w \in pend : w.a.t = "tc" /\ w.a.n = r
        THEN [reqs[r] EXCEPT !.pc = "fired"] ELSE reqs[r]]
MarkFiredQueueCommits(pend) ==
    [d \in DOMAIN dqc |->
        IF \E w \in pend : w.a = d THEN [dqc[d] EXCEPT !.pc = "fired"] ELSE dqc[d]]

\* self->newLogData.onTrigger() is waited for at the top of commitQueue's
\* loop and in the choose of its inner loop
NewLogDataWaiters(l) ==
    {Waiter(0, a, IF cq[a].pc = "waitNew" THEN "scan" ELSE "inner") :
        a \in {x \in DOMAIN cq : LogOf(x) = l /\ cq[x].pc \in {"waitNew", "choose"}}}

\* a tLogStart that waits for one of its tlogGroupStart actors only
ServedAnyGroup(starts) ==
    [i \in DOMAIN tli |->
        IF /\ tli[i].removed = 0
           /\ \E k \in DOMAIN tli[i].tlogGroups :
                  starts[<<i, tli[i].tlogGroups[k]>>] = "done"
        THEN [tli[i] EXCEPT !.removed = Len(tlogCache),
                            !.serving = ~tli[Len(tlogCache)].displaced]
        ELSE tli[i]]

\* tLogStart's waitForAll(tlogGroupStarts) has returned: the interface is
\* sent to the recruiter and tLogCore starts.  tLogCore reads self->removed,
\* the rejoinMasters actor of the latest tLogStart: if it has thrown, the
\* interface is not served; otherwise tLogCore adds it to its actors and
\* starts serveTLogInterface_PassivelyPull
Served(starts) ==
    [i \in DOMAIN tli |->
        IF /\ tli[i].removed = 0
           /\ \A k \in DOMAIN tli[i].tlogGroups :
                  starts[<<i, tli[i].tlogGroups[k]>>] = "done"
        THEN [tli[i] EXCEPT !.removed = Len(tlogCache),
                            !.serving = ~tli[Len(tlogCache)].displaced]
        ELSE tli[i]]

\* tlogGroupStart, from the return of initPersistentState, which has set
\* the generation's keys in persistentData and committed them (persisted),
\* to newLogData.trigger()
InitPersistentStateDone(l) ==
    /\ Idle
    /\ l \in DOMAIN tgs /\ tgs[l] = "init"
    /\ IF gen[l].recoveryComplete # "unset"
       THEN /\ tgs' = [tgs EXCEPT ![l] = "removing"]
            /\ gen' = [gen EXCEPT ![l].persisted = TRUE]
            /\ UNCHANGED <<cq, stack>>
       ELSE /\ gen' = [gen EXCEPT ![l].persisted = TRUE, ![l].initialized = TRUE]
            /\ cq' = MarkFired(NewLogDataWaiters(l))
            /\ stack' = Call(stack, Actor("tgs", l, 0), "triggered", NewLogDataWaiters(l))
            /\ UNCHANGED tgs
    /\ UNCHANGED <<tlogCache, tlogGroups, grp, tli, dqc, reqs, replyLog, terminated>>
    /\ UNCHANGED <<forwards, otherVars>>

\* tlogGroupStart, after newLogData.trigger()
GroupStartTriggered ==
    /\ Running("tgs", "triggered")
    /\ LET l == LogOf(Top.a)
           starts == [tgs EXCEPT ![l] =
                        IF gen[l].committingQueue = "set" THEN "done" ELSE "waitCQ"]
       IN  /\ gen' = [gen EXCEPT ![l].recoveryComplete = "set"]
           /\ tgs' = starts
           /\ tli' = Served(starts)
    /\ stack' = Pop
    /\ UNCHANGED <<tlogCache, tlogGroups, grp, cq, dqc, reqs, replyLog, terminated>>
    /\ UNCHANGED <<forwards, otherVars>>

\* tlogGroupStart's catch block after its delay: removeLog.  Nothing fills
\* logGenerations, so removeLog throws worker_removed out of tlogGroupStart
\* and tLogStart; tLog catches it and returns, which cancels the actors of
\* its collections: the tLogStart actors and, with them, the interfaces and
\* their tLogCommit actors.
RemoveLog(l) ==
    /\ Idle
    /\ l \in DOMAIN tgs /\ tgs[l] = "removing"
    /\ gen' = [gen EXCEPT ![l].stopped = TRUE,
                          ![l].recoveryComplete = IF @ = "unset" THEN "error" ELSE @,
                          ![l].inIdData = FALSE]
    /\ tgs' = [x \in DOMAIN tgs |-> IF tgs[x] = "done" THEN "done" ELSE "cancelled"]
    /\ tli' = [i \in DOMAIN tli |-> [tli[i] EXCEPT !.serving = FALSE]]
    /\ reqs' = [r \in DOMAIN reqs |->
                  IF reqs[r].pc = "done" THEN reqs[r]
                  ELSE [reqs[r] EXCEPT !.pc = "cancelled"]]
    /\ terminated' = "worker_removed"
    /\ UNCHANGED <<tlogCache, tlogGroups, grp, cq, dqc, replyLog, stack>>
    /\ UNCHANGED <<forwards, otherVars>>

\* removeLog in tLogCore's loop over activeGeneration: the first generation
\* of the loop is stopped and erased, and removeLog throws worker_removed
\* out of tLogCore and tLogStart since nothing fills logGenerations; tLog
\* catches it and returns.  activeGeneration is an unordered_map: its first
\* generation is any of the interface's.
TLogCoreRemoveLog(i, g, displaced) ==
    /\ g \in Range(tli[i].tlogGroups)
    /\ gen' = [gen EXCEPT ![<<i, g>>].stopped = TRUE,
                          ![<<i, g>>].recoveryComplete = IF @ = "unset" THEN "error" ELSE @,
                          ![<<i, g>>].inIdData = FALSE]
    /\ tgs' = [x \in DOMAIN tgs |-> IF tgs[x] = "done" THEN "done" ELSE "cancelled"]
    /\ tli' = [x \in DOMAIN tli |->
                 [tli[x] EXCEPT !.serving = FALSE,
                                !.displaced = @ \/ x \in displaced]]
    /\ reqs' = [r \in DOMAIN reqs |->
                  IF reqs[r].pc = "done" THEN reqs[r]
                  ELSE [reqs[r] EXCEPT !.pc = "cancelled"]]
    /\ terminated' = "worker_removed"

\* the rejoinMasters actor that tLogStart started for interface j throws
\* worker_removed.  The tlogGroupStart actors of j's generations that wait
\* with `|| logData->removed' go to their catch block; a tLogCore that added
\* this future to its actors leaves wait(error) for its own catch block.
Displaced(j) ==
    /\ Idle
    /\ j \in DOMAIN tli /\ ~tli[j].displaced
    /\ IF \E i \in DOMAIN tli : tli[i].serving /\ tli[i].removed = j
       THEN \E i \in DOMAIN tli, g \in Groups :
               /\ tli[i].serving /\ tli[i].removed = j
               /\ TLogCoreRemoveLog(i, g, {j})
       ELSE /\ tli' = [tli EXCEPT ![j].displaced = TRUE]
            /\ tgs' = [l \in DOMAIN tgs |->
                         IF l[1] = j /\ tgs[l] \in {"init", "waitCQ"}
                         THEN "removing" ELSE tgs[l]]
            /\ UNCHANGED <<gen, reqs, terminated>>
    /\ UNCHANGED <<tlogCache, tlogGroups, grp, cq, dqc, replyLog, stack>>
    /\ UNCHANGED <<forwards, otherVars>>

\* tLogCore found self->removed ready when it started: after its delay(0)
\* it runs the same loop over activeGeneration
TLogCoreRemoved(i, g) ==
    /\ Idle
    /\ i \in DOMAIN tli /\ tli[i].removed # 0 /\ ~tli[i].serving
    /\ TLogCoreRemoveLog(i, g, {})
    /\ UNCHANGED <<tlogCache, tlogGroups, grp, cq, dqc, replyLog, stack>>
    /\ UNCHANGED <<forwards, otherVars>>

\* a waiter of the call on top of the stack is resumed
Resume ==
    /\ ~Crashed
    /\ stack # <<>> /\ Top.k = "notify"
    /\ \E w \in NextWaiters : stack' = Append(AfterFire(w), ContFrame(w.a, w.pc))
    /\ UNCHANGED <<tlogCache, tlogGroups, grp, gen, tli, cq, dqc, tgs, reqs,
                   replyLog, terminated>>
    /\ UNCHANGED <<forwards, otherVars>>

\* ---------------------------------------------------------- commitQueue

\* the stopped generations of id_data whose last bytes no queue commit covers
MissingFinalCommit(l) ==
    {x \in {l} : /\ gen[x].inIdData /\ gen[x].stopped
                 /\ gen[x].version > Max(gen[x].queueCommittingVersion,
                                         gen[x].queueCommittedVersion)}

\* commitQueue, the top of its loop: the scan of id_data
CommitQueueScan ==
    /\ Running("cq", "scan")
    /\ LET a == Top.a
           l == LogOf(a)
           found == gen[l].inIdData /\ ~gen[l].stopped
           starts == [tgs EXCEPT ![l] = IF @ = "waitCQ" THEN "done" ELSE @]
       IN  IF ~found
           THEN /\ cq' = [cq EXCEPT ![a] = [pc |-> "waitNew", limit |-> 0,
                                            missingFinalCommit |-> {}]]
                /\ stack' = Pop
                /\ UNCHANGED <<gen, tgs, tli>>
           ELSE /\ cq' = [cq EXCEPT ![a] = [pc |-> "running", limit |-> 0,
                                            missingFinalCommit |-> MissingFinalCommit(l)]]
                /\ gen' = [gen EXCEPT ![l].committingQueue =
                                          IF @ = "unset" THEN "set" ELSE @]
                /\ tgs' = IF gen[l].committingQueue = "unset" THEN starts ELSE tgs
                /\ tli' = IF gen[l].committingQueue = "unset" THEN Served(starts) ELSE tli
                /\ stack' = Append(Pop, ContFrame(a, "inner"))
    /\ UNCHANGED <<tlogCache, tlogGroups, grp, dqc, reqs, replyLog, terminated>>
    /\ UNCHANGED <<forwards, otherVars>>

\* commitQueue, the top of its inner loop up to the choose
CommitQueueInner ==
    /\ Running("cq", "inner")
    /\ LET a == Top.a
           g == gen[LogOf(a)]
           m == Max(g.queueCommittingVersion, g.queueCommittedVersion)
       IN  IF g.stopped /\ g.version = m
           THEN IF g.queueCommittedVersion >= g.version
                THEN /\ stack' = Append(Pop, ContFrame(a, "scan"))
                     /\ UNCHANGED cq
                ELSE /\ cq' = [cq EXCEPT ![a].pc = "waitFinal", ![a].limit = g.version]
                     /\ stack' = Pop
           ELSE IF g.version >= m + 1
                THEN /\ stack' = Append(Pop, ContFrame(a, "while"))
                     /\ UNCHANGED cq
                ELSE /\ cq' = [cq EXCEPT ![a].pc = "choose", ![a].limit = m + 1]
                     /\ stack' = Pop
    /\ UNCHANGED <<tlogCache, tlogGroups, grp, gen, tli, dqc, tgs, reqs, replyLog,
                   terminated>>
    /\ UNCHANGED <<forwards, otherVars>>

\* largeDiskQueueCommitBytes.onChange() is waited for in commitQueue's while
LargeWaiters(l) ==
    {Waiter(0, a, "while") :
        a \in {x \in DOMAIN cq : LogOf(x) = l /\ cq[x].pc = "whileWait"}}

\* a queue commit that takes a version the generation has not reached
doQueueCommitVerAhead(g) == g.version + 1

\* doQueueCommit: state Version ver = logData->version.get()
doQueueCommitVer(g) == g.version

\* a queue commit that forgets the known committed version
doQueueCommitKnownCommittedNone(g) == 0

\* doQueueCommit: state Version knownCommittedVersion
doQueueCommitKnownCommitted(g) == g.knownCommittedVersion

\* commitQueue, the while that waits for the queue commit in flight, and the
\* start of doQueueCommit up to its first wait
CommitQueueWhile ==
    /\ Running("cq", "while")
    /\ LET a == Top.a
           l == LogOf(a)
           G == grp[l]
           g == gen[l]
           n == G.queueCommitBegin + 1
           d == Actor("dqc", l, n)
       IN  IF G.queueCommitBegin # G.queueCommitEnd /\ ~G.largeDiskQueueCommitBytes
           THEN /\ cq' = [cq EXCEPT ![a].pc = "whileWait",
                                    ![a].limit = G.queueCommitBegin]
                /\ stack' = Pop
                /\ UNCHANGED <<grp, gen, dqc>>
           ELSE IF g.version > g.queueCommittedVersion
                THEN /\ dqc' = dqc @@ (d :> [ver |-> doQueueCommitVer(g),
                                             knownCommittedVersion |-> doQueueCommitKnownCommitted(g),
                                             missingFinalCommit |-> cq[a].missingFinalCommit,
                                             pc |-> "running"])
                     /\ grp' = [grp EXCEPT ![l].queueCommitBegin = n,
                                           ![l].diskQueueCommitBytes = 0,
                                           ![l].largeDiskQueueCommitBytes = FALSE]
                     /\ gen' = [gen EXCEPT ![l].queueCommittingVersion = doQueueCommitVer(g)]
                     /\ cq' = [MarkFired(IF G.largeDiskQueueCommitBytes
                                         THEN LargeWaiters(l) ELSE {})
                                 EXCEPT ![a].missingFinalCommit = {}]
                     /\ stack' = Call(Append(Pop, ContFrame(a, "inner")), d, "started",
                                      IF G.largeDiskQueueCommitBytes
                                      THEN LargeWaiters(l) ELSE {})
                ELSE /\ cq' = [cq EXCEPT ![a].missingFinalCommit = {}]
                     /\ stack' = Append(Pop, ContFrame(a, "inner"))
                     /\ UNCHANGED <<grp, gen, dqc>>
    /\ UNCHANGED <<tlogCache, tlogGroups, tli, tgs, reqs, replyLog, terminated>>
    /\ UNCHANGED <<forwards, otherVars>>

\* -------------------------------------------------------- doQueueCommit

\* doQueueCommit after largeDiskQueueCommitBytes.set(false): the disk commit
\* is a ready future, and a simulation run may delay six seconds
DoQueueCommitStarted ==
    /\ Running("dqc", "started")
    /\ \E buggify \in BOOLEAN :
          IF buggify
          THEN /\ dqc' = [dqc EXCEPT ![Top.a].pc = "delay"]
               /\ stack' = Pop
          ELSE /\ stack' = Append(Pop, ContFrame(Top.a, "waitEnd"))
               /\ UNCHANGED dqc
    /\ UNCHANGED <<tlogCache, tlogGroups, grp, gen, tli, cq, tgs, reqs, replyLog,
                   terminated>>
    /\ UNCHANGED <<forwards, otherVars>>

\* a queue commit that does not wait for the one before it
PreviousCommitEndedAlways(G, d) == TRUE

\* queueCommitEnd.whenAtLeast(commitNumber - 1) is ready
PreviousCommitEnded(G, d) == G.queueCommitEnd >= d.n - 1

\* doQueueCommit: wait(queueCommitEnd.whenAtLeast(commitNumber - 1)), then
\* check_yield, which may make it wait(delay(0))
DoQueueCommitWaitEnd ==
    /\ Running("dqc", "waitEnd")
    /\ LET d == Top.a
       IN  IF PreviousCommitEnded(grp[LogOf(d)], d)
           THEN \E yield \in BOOLEAN :
                   IF yield
                   THEN /\ dqc' = [dqc EXCEPT ![d].pc = "yield"]
                        /\ stack' = Pop
                   ELSE /\ stack' = Append(Pop, ContFrame(d, "finish"))
                        /\ UNCHANGED dqc
           ELSE /\ dqc' = [dqc EXCEPT ![d].pc = "waitEnd"]
                /\ stack' = Pop
    /\ UNCHANGED <<tlogCache, tlogGroups, grp, gen, tli, cq, tgs, reqs, replyLog,
                   terminated>>
    /\ UNCHANGED <<forwards, otherVars>>

\* a delay of a doQueueCommit expires
QueueCommitDelayExpires(d) ==
    /\ ~Crashed /\ stack = <<>>
    /\ d \in DOMAIN dqc /\ dqc[d].pc \in {"delay", "yield"}
    /\ dqc' = [dqc EXCEPT ![d].pc = "running"]
    /\ stack' = <<ContFrame(d, IF dqc[d].pc = "delay" THEN "waitEnd" ELSE "finish")>>
    /\ UNCHANGED <<tlogCache, tlogGroups, grp, gen, tli, cq, tgs, reqs, replyLog,
                   terminated>>
    /\ UNCHANGED <<forwards, otherVars>>

\* the actors queueCommittedVersion.set(v) resumes: the tLogCommit actors
\* that wait for their version, and commitQueue's wait for the final commit
QueueCommittedWaiters(l, v) ==
    {Waiter(reqs[r].version, Actor("tc", l, r), "reply") :
        r \in {x \in DOMAIN reqs : /\ reqs[x].l = l /\ reqs[x].pc = "waitQueue"
                                   /\ reqs[x].version <= v}}
    \cup
    {Waiter(cq[a].limit, a, "scan") :
        a \in {x \in DOMAIN cq : /\ LogOf(x) = l /\ cq[x].pc = "waitFinal"
                                 /\ cq[x].limit <= v}}

\* a queue commit that publishes what the generation holds when it completes
doQueueCommitSetCurrent(g, d) ==
    [g EXCEPT !.durableKnownCommittedVersion = g.knownCommittedVersion,
              !.queueCommittedVersion = g.version]

\* doQueueCommit: logData->durableKnownCommittedVersion = knownCommittedVersion
\* and logData->queueCommittedVersion.set(ver), from the actor's state d
doQueueCommitSet(g, d) ==
    [g EXCEPT !.durableKnownCommittedVersion = d.knownCommittedVersion,
              !.queueCommittedVersion = d.ver]

\* doQueueCommit: ASSERT(ver > queueCommittedVersion), the durable known
\* committed version, and queueCommittedVersion.set(ver)
DoQueueCommitFinish ==
    /\ Running("dqc", "finish")
    /\ LET d == Top.a
           l == LogOf(d)
           W == QueueCommittedWaiters(l, dqc[d].ver)
       IN  IF dqc[d].ver > gen[l].queueCommittedVersion
           THEN /\ gen' = [gen EXCEPT ![l] = doQueueCommitSet(gen[l], dqc[d])]
                /\ reqs' = MarkFiredCommits(W)
                /\ cq' = MarkFired(W)
                /\ stack' = Call(Pop, d, "setEnd", W)
                /\ UNCHANGED terminated
           ELSE /\ terminated' = "assertion_failed"
                /\ stack' = <<>>
                /\ UNCHANGED <<gen, reqs, cq>>
    /\ UNCHANGED <<tlogCache, tlogGroups, grp, tli, dqc, tgs, replyLog>>
    /\ UNCHANGED <<forwards, otherVars>>

\* the actors queueCommitEnd.set(n) resumes: the next doQueueCommit, and
\* commitQueue's wait for the commit in flight
QueueCommitEndWaiters(l, n) ==
    {Waiter(d.n - 1, d, "waitEnd") :
        d \in {x \in DOMAIN dqc : /\ LogOf(x) = l /\ dqc[x].pc = "waitEnd"
                                  /\ x.n - 1 <= n}}
    \cup
    {Waiter(cq[a].limit, a, "while") :
        a \in {x \in DOMAIN cq : /\ LogOf(x) = l /\ cq[x].pc = "whileWait"
                                 /\ cq[x].limit <= n}}

\* doQueueCommit: queueCommitEnd.set(commitNumber)
DoQueueCommitSetEnd ==
    /\ Running("dqc", "setEnd")
    /\ LET d == Top.a
           l == LogOf(d)
           W == QueueCommitEndWaiters(l, d.n)
       IN  /\ grp' = [grp EXCEPT ![l].queueCommitEnd = d.n]
           /\ dqc' = MarkFiredQueueCommits(W)
           /\ cq' = MarkFired(W)
           /\ stack' = Call(Pop, d, "final", W)
    /\ UNCHANGED <<tlogCache, tlogGroups, gen, tli, tgs, reqs, replyLog, terminated>>
    /\ UNCHANGED <<forwards, otherVars>>

\* doQueueCommit: the generations that missed their final commit are given
\* their version as queueCommittedVersion, and the actor returns
DoQueueCommitFinal ==
    /\ Running("dqc", "final")
    /\ LET d == Top.a
           M == dqc[d].missingFinalCommit
           W == UNION {QueueCommittedWaiters(x, gen[x].version) : x \in M}
       IN  /\ gen' = [x \in DOMAIN gen |->
                        IF x \in M
                        THEN [gen[x] EXCEPT !.queueCommittedVersion = gen[x].version]
                        ELSE gen[x]]
           /\ dqc' = [dqc EXCEPT ![d].pc = "done"]
           /\ reqs' = MarkFiredCommits(W)
           /\ cq' = MarkFired(W)
           /\ stack' = IF W = {} THEN Pop ELSE Append(Pop, NotifyFrame(W))
    /\ UNCHANGED <<tlogCache, tlogGroups, grp, tli, tgs, replyLog, terminated>>
    /\ UNCHANGED <<forwards, otherVars>>

\* ----------------------------------------------------------- tLogCommit

\* req.reply.send / req.reply.sendError of request r
Replied(r, rep) == [reqs EXCEPT ![r].pc = "done", ![r].reply = rep]

\* a lookup that gives the first generation for a team it does not find
FindGenerationOrFirst(i, team) ==
    IF team - 2 \in DOMAIN tli[i].tlogGroups
    THEN <<i, tli[i].tlogGroups[team - 2]>> ELSE <<i, tli[i].tlogGroups[1]>>

\* activeGeneration->find(req.storageTeamID) of interface i: tLogStart gave
\* the k-th group of the request the team k + 2
FindGeneration(i, team) ==
    IF team - 2 \in DOMAIN tli[i].tlogGroups
    THEN <<i, tli[i].tlogGroups[team - 2]>> ELSE NoLog

\* serveTLogInterface_PassivelyPull's commit branch, and tLogCommit up to
\* wait(logData->version.whenAtLeast(req.prevVersion))
CommitRequest(i, team, prev, ver, msgs, kcv, mkcv) ==
    /\ Idle
    /\ Len(tlogCache) + Len(reqs) + Len(forwards) < MaxRequests
    /\ i \in DOMAIN tli /\ tli[i].serving
    /\ LET l == FindGeneration(i, team)
           found == l # NoLog
           r == Len(reqs) + 1
           req == [i |-> i, l |-> l, storageTeamID |-> team, prevVersion |-> prev,
                   version |-> ver, messages |-> msgs, knownCommittedVersion |-> kcv,
                   minKnownCommittedVersion |-> mkcv, isNotDuplicate |-> FALSE,
                   lagged |-> FALSE, pc |-> "running", reply |-> NoReply]
       IN  IF ~found
           THEN /\ reqs' = Append(reqs, [req EXCEPT !.pc = "done",
                                           !.reply = Error("tlog_group_not_found")])
                /\ replyLog' = Append(replyLog, r)
                /\ UNCHANGED <<gen, stack>>
           ELSE IF gen[l].stopped
                THEN /\ reqs' = Append(reqs, [req EXCEPT !.pc = "done",
                                                !.reply = Error("tlog_stopped")])
                     /\ replyLog' = Append(replyLog, r)
                     /\ UNCHANGED <<gen, stack>>
                ELSE /\ gen' = [gen EXCEPT ![l].minKnownCommittedVersion = Max(@, mkcv)]
                     /\ UNCHANGED replyLog
                     /\ IF gen[l].version >= prev
                        THEN /\ reqs' = Append(reqs, req)
                             /\ stack' = <<ContFrame(Actor("tc", l, r), "yield")>>
                        ELSE /\ reqs' = Append(reqs, [req EXCEPT !.pc = "waitVersion"])
                             /\ UNCHANGED stack
    /\ UNCHANGED <<tlogCache, tlogGroups, grp, tli, cq, dqc, tgs, terminated>>
    /\ UNCHANGED <<forwards, otherVars>>

\* tLogCommit after its wait for prevVersion: check_yield
CommitYield ==
    /\ Running("tc", "yield")
    /\ \E yield \in BOOLEAN :
          IF yield
          THEN /\ reqs' = [reqs EXCEPT ![Top.a.n].pc = "delay"]
               /\ stack' = Pop
          ELSE /\ stack' = Append(Pop, ContFrame(Top.a, "body"))
               /\ UNCHANGED reqs
    /\ UNCHANGED <<tlogCache, tlogGroups, grp, gen, tli, cq, dqc, tgs, replyLog,
                   terminated>>
    /\ UNCHANGED <<forwards, otherVars>>

\* a delay of a tLogCommit expires: delay(0) of the yield, or delayJittered
\* of the hard-limit loop
CommitDelayExpires(r) ==
    /\ Idle
    /\ r \in DOMAIN reqs /\ reqs[r].pc \in {"delay", "lag"}
    /\ reqs' = [reqs EXCEPT ![r].pc = "running"]
    /\ stack' = <<ContFrame(Actor("tc", reqs[r].l, r), "body")>>
    /\ UNCHANGED <<tlogCache, tlogGroups, grp, gen, tli, cq, dqc, tgs, replyLog,
                   terminated>>
    /\ UNCHANGED <<forwards, otherVars>>

\* the bytes commitMessages adds to bytesInput for a message that is not empty
AddedBytes(msgs) ==
    Len(msgs) * TLOG_MESSAGE_BLOCK_OVERHEAD_FACTOR + VERSION_MESSAGES_ENTRY_BYTES_WITH_OVERHEAD

\* commitMessages without its return for an empty message
commitMessagesNoEmptyCheck(g, version, msgs) ==
    [g EXCEPT !.versionMessages =
                  Append(@, [version |-> version, messages |-> msgs])]

\* commitMessages with the new entry put at the front of the deque
commitMessagesFront(g, version, msgs) ==
    IF Len(msgs) = 0 THEN g
    ELSE [g EXCEPT !.versionMessages =
                       <<[version |-> version, messages |-> msgs]>> \o @]

\* commitMessages, on the team's deque of the generation
commitMessages(g, version, msgs) ==
    IF Len(msgs) = 0 THEN g
    ELSE [g EXCEPT !.versionMessages =
                       Append(@, [version |-> version, messages |-> msgs])]

\* commitMessages, on the group's byte counter
commitMessagesBytes(G, msgs) ==
    IF Len(msgs) = 0 THEN G
    ELSE [G EXCEPT !.bytesInput = @ + AddedBytes(msgs)]

\* a duplicate check that takes any request at or past its prevVersion
isNotDuplicateAtLeast(g, q) == g.version >= q.prevVersion

\* no duplicate check
isNotDuplicateAlways(g, q) == TRUE

\* bool isNotDuplicate = (logData->version.get() == req.prevVersion)
isNotDuplicate(g, q) == g.version = q.prevVersion

\* the known committed version taken before the duplicate check, as the
\* minKnownCommittedVersion is
CommitEffectKnownCommittedFirst(g, q) ==
    [(IF isNotDuplicate(g, q) THEN commitMessages(g, q.version, q.messages) ELSE g)
        EXCEPT !.knownCommittedVersion = Max(@, q.knownCommittedVersion)]

\* what tLogCommit does to the generation between the duplicate check and
\* version.set: commitMessages and the known committed version
CommitEffect(g, q) ==
    IF isNotDuplicate(g, q)
    THEN [commitMessages(g, q.version, q.messages) EXCEPT
              !.knownCommittedVersion = Max(@, q.knownCommittedVersion)]
    ELSE g

\* a commit handler without backpressure
HardLimitReachedNever(G) == FALSE

\* tLogCommit's while: bytesInput - bytesDurable >= TLOG_HARD_LIMIT_BYTES
HardLimitReached(G) == G.bytesInput - G.bytesDurable >= TLOG_HARD_LIMIT_BYTES

\* tLogCommit from the hard-limit loop to largeDiskQueueCommitBytes.set(true)
CommitBody ==
    /\ Running("tc", "body")
    /\ LET a == Top.a
           r == a.n
           l == LogOf(a)
           q == reqs[r]
           G == commitMessagesBytes(grp[l], q.messages)
           bytes == G.diskQueueCommitBytes + Len(q.messages)
           large == bytes > MAX_QUEUE_COMMIT_BYTES
           W == IF large /\ ~G.largeDiskQueueCommitBytes THEN LargeWaiters(l) ELSE {}
       IN  IF /\ HardLimitReached(grp[l])
              /\ ~gen[l].stopped
           THEN /\ reqs' = [reqs EXCEPT ![r].pc = "lag", ![r].lagged = TRUE]
                /\ stack' = Pop
                /\ UNCHANGED <<grp, gen, cq, replyLog>>
           ELSE IF gen[l].stopped
                THEN /\ reqs' = Replied(r, Error("tlog_stopped"))
                     /\ replyLog' = Append(replyLog, r)
                     /\ stack' = Pop
                     /\ UNCHANGED <<grp, gen, cq>>
                ELSE IF isNotDuplicate(gen[l], q)
                     THEN /\ reqs' = [reqs EXCEPT ![r].isNotDuplicate = TRUE]
                          /\ gen' = [gen EXCEPT ![l] = CommitEffect(@, q)]
                          /\ grp' = [grp EXCEPT ![l] =
                                [G EXCEPT !.diskQueueCommitBytes = bytes,
                                          !.largeDiskQueueCommitBytes = @ \/ large]]
                          /\ cq' = MarkFired(W)
                          /\ stack' = Call(Pop, a, "setVersion", W)
                          /\ UNCHANGED replyLog
                     ELSE /\ gen' = [gen EXCEPT ![l] = CommitEffect(@, q)]
                          /\ stack' = Append(Pop, ContFrame(a, "wait"))
                          /\ UNCHANGED <<grp, cq, reqs, replyLog>>
    /\ UNCHANGED <<tlogCache, tlogGroups, tli, dqc, tgs, terminated>>
    /\ UNCHANGED <<forwards, otherVars>>

\* the actors version.set(v) resumes: the tLogCommit actors that wait for
\* their prevVersion, and the choose of commitQueue
VersionWaiters(l, v) ==
    {Waiter(reqs[r].prevVersion, Actor("tc", l, r), "yield") :
        r \in {x \in DOMAIN reqs : /\ reqs[x].l = l /\ reqs[x].pc = "waitVersion"
                                   /\ reqs[x].prevVersion <= v}}
    \cup
    {Waiter(cq[a].limit, a, "while") :
        a \in {x \in DOMAIN cq : /\ LogOf(x) = l /\ cq[x].pc = "choose"
                                 /\ cq[x].limit <= v}}

\* tLogCommit: logData->version.set(req.version)
CommitSetVersion ==
    /\ Running("tc", "setVersion")
    /\ LET a == Top.a
           l == LogOf(a)
           v == reqs[a.n].version
           W == VersionWaiters(l, v)
       IN  /\ gen' = [gen EXCEPT ![l].version = v]
           /\ reqs' = MarkFiredCommits(W)
           /\ cq' = MarkFired(W)
           /\ stack' = Call(Pop, a, "wait", W)
    /\ UNCHANGED <<tlogCache, tlogGroups, grp, tli, dqc, tgs, replyLog, terminated>>
    /\ UNCHANGED <<forwards, otherVars>>

\* a wait for the queue commit of the request's prevVersion
QueueCommittedPrev(g, q) == g.queueCommittedVersion >= q.prevVersion

\* logData->queueCommittedVersion.whenAtLeast(req.version) is ready
QueueCommitted(g, q) == g.queueCommittedVersion >= q.version

\* tLogCommit: the wait for queueCommittedVersion or stopCommit
CommitWait ==
    /\ Running("tc", "wait")
    /\ LET a == Top.a
           l == LogOf(a)
           r == a.n
       IN  IF QueueCommitted(gen[l], reqs[r])
           THEN /\ stack' = Append(Pop, ContFrame(a, "reply"))
                /\ UNCHANGED reqs
           ELSE /\ reqs' = [reqs EXCEPT ![r].pc = "waitQueue"]
                /\ stack' = Pop
    /\ UNCHANGED <<tlogCache, tlogGroups, grp, gen, tli, cq, dqc, tgs, replyLog,
                   terminated>>
    /\ UNCHANGED <<forwards, otherVars>>

\* tLogCommit: req.reply.send(logData->durableKnownCommittedVersion)
CommitReply ==
    /\ Running("tc", "reply")
    /\ LET r == Top.a.n
           l == LogOf(Top.a)
       IN  /\ reqs' = Replied(r, [kind |-> "ok",
                                  version |-> gen[l].durableKnownCommittedVersion])
           /\ replyLog' = Append(replyLog, r)
    /\ stack' = Pop
    /\ UNCHANGED <<tlogCache, tlogGroups, grp, gen, tli, cq, dqc, tgs, terminated>>
    /\ UNCHANGED <<forwards, otherVars>>

\* ------------------------------------------------------- the state machine

Next ==
    \/ \E rid \in 1..MaxRecruit, gl \in GroupLists : InitializeTLog(rid, gl)
    \/ \E rid \in 1..MaxRecruit, gl \in GroupLists : InitializeTLogSeen(rid, gl)
    \/ ActiveSharedChange
    \/ \E l \in DOMAIN tgs : InitPersistentStateDone(l)
    \/ GroupStartTriggered
    \/ \E l \in DOMAIN tgs : RemoveLog(l)
    \/ \E j \in 1..MaxRecruit : Displaced(j)
    \/ \E i \in 1..MaxRecruit, g \in Groups : TLogCoreRemoved(i, g)
    \/ Resume
    \/ CommitQueueScan
    \/ CommitQueueInner
    \/ CommitQueueWhile
    \/ DoQueueCommitStarted
    \/ DoQueueCommitWaitEnd
    \/ \E d \in DOMAIN dqc : QueueCommitDelayExpires(d)
    \/ DoQueueCommitFinish
    \/ DoQueueCommitSetEnd
    \/ DoQueueCommitFinal
    \/ \E i \in 1..MaxRecruit, team \in TeamIDs, prev \in Versions, ver \in Versions,
          k \in Payloads :
          prev < ver /\ CommitRequest(i, team, prev, ver, k[1], k[2], k[3])
    \/ CommitYield
    \/ \E r \in DOMAIN reqs : CommitDelayExpires(r)
    \/ CommitBody
    \/ CommitSetVersion
    \/ CommitWait
    \/ CommitReply

Spec == Init /\ [][Next]_vars

\* ------------------------------------------------------------ TLogQueue

\* the serialized TLogQueueEntry objects a user pushes
QueueEntries == {<<5>>, <<6, 7>>}

Min(a, b) == IF a <= b THEN a ELSE b

\* a uint32_t as its bytes in memory, lowest first
Uint32(n) == [k \in 1..sizeofUint32 |-> (n \div (256 ^ (k - 1))) % 256]

\* memcpy of the bytes h over an int that is 0
RECURSIVE FromBytes(_)
FromBytes(h) ==
    IF h = <<>> THEN 0 ELSE h[1] + 256 * FromBytes(Tail(h))

\* a fill with bytes that read as a set valid flag
Ones(n) == [k \in 1..n |-> 1]

\* readNext's fill: zeroFillSize times queue->push of one zero byte
Zeros(n) == [k \in 1..n |-> 0]

\* a packet whose valid flag is never set
PacketInvalid(entry) == Uint32(Len(entry)) \o entry \o <<0>>

\* TLogQueue::push: payloadSize, payload, validFlag
Packet(entry) == Uint32(Len(entry)) \o entry \o <<1>>

\* IDiskQueue::readNext(bytes): the next bytes, fewer at the end of the queue
DiskReadNext(q, loc, bytes) == SubSeq(q, loc + 1, Min(loc + bytes, Len(q)))

NoEntry(loc, zeroFillSize) ==
    [found |-> FALSE, entry |-> <<>>, loc |-> loc, zeroFillSize |-> zeroFillSize]

\* a readNext that returns every whole packet, whatever its valid flag
readNextAnyFlag(q, loc) ==
    LET h == DiskReadNext(q, loc, sizeofUint32)
        payloadSize == FromBytes(h)
        e == DiskReadNext(q, loc + sizeofUint32, payloadSize + 1)
    IN  IF Len(h) # sizeofUint32
        THEN NoEntry(loc + Len(h),
                     IF Len(h) > 0
                     THEN (sizeofUint32 - Len(h)) + payloadSize + 1 ELSE 0)
        ELSE IF Len(e) # payloadSize + 1
        THEN NoEntry(loc + sizeofUint32 + Len(e), payloadSize + 1 - Len(e))
        ELSE [found |-> TRUE, entry |-> SubSeq(e, 1, payloadSize),
              loc |-> loc + sizeofUint32 + payloadSize + 1, zeroFillSize |-> 0]

\* a readNext that fills a cut size field but not the payload behind it
RECURSIVE readNextShortFill(_, _)
readNextShortFill(q, loc) ==
    LET h == DiskReadNext(q, loc, sizeofUint32)
        payloadSize == FromBytes(h)
        e == DiskReadNext(q, loc + sizeofUint32, payloadSize + 1)
    IN  IF Len(h) # sizeofUint32
        THEN NoEntry(loc + Len(h),
                     IF Len(h) > 0 THEN sizeofUint32 - Len(h) ELSE 0)
        ELSE IF Len(e) # payloadSize + 1
        THEN NoEntry(loc + sizeofUint32 + Len(e), payloadSize + 1 - Len(e))
        ELSE IF e[payloadSize + 1] # 0
        THEN [found |-> TRUE, entry |-> SubSeq(e, 1, payloadSize),
              loc |-> loc + sizeofUint32 + payloadSize + 1, zeroFillSize |-> 0]
        ELSE readNextShortFill(q, loc + sizeofUint32 + payloadSize + 1)

\* TLogQueue::readNext from read location loc: the entry it returns, or the
\* zeroFillSize with which it throws end_of_stream
RECURSIVE readNext(_, _)
readNext(q, loc) ==
    LET h == DiskReadNext(q, loc, sizeofUint32)
        payloadSize == FromBytes(h)
        e == DiskReadNext(q, loc + sizeofUint32, payloadSize + 1)
    IN  IF Len(h) # sizeofUint32
        THEN NoEntry(loc + Len(h),
                     IF Len(h) > 0
                     THEN (sizeofUint32 - Len(h)) + payloadSize + 1 ELSE 0)
        ELSE IF Len(e) # payloadSize + 1
        THEN NoEntry(loc + sizeofUint32 + Len(e), payloadSize + 1 - Len(e))
        ELSE IF e[payloadSize + 1] # 0
        THEN [found |-> TRUE, entry |-> SubSeq(e, 1, payloadSize),
              loc |-> loc + sizeofUint32 + payloadSize + 1, zeroFillSize |-> 0]
        ELSE readNext(q, loc + sizeofUint32 + payloadSize + 1)

serverVars == <<tlogCache, tlogGroups, grp, gen, tli, cq, dqc, tgs, reqs, replyLog,
                stack, terminated, forwards, peeks>>

\* TLogQueue::push
TLogQueuePush(entry) ==
    /\ ~recovering
    /\ Len(pushedEntries) < MaxQueueEntries
    /\ queue' = queue \o Packet(entry)
    /\ pushedEntries' = Append(pushedEntries, entry)
    /\ UNCHANGED <<durableBytes, nextReadLocation, recovering, yielded,
                   committedEntries, atCrash, crashes>>
    /\ UNCHANGED <<serverVars, rejoin, decoder, toolVars>>

\* TLogQueue::commit has returned
TLogQueueCommit ==
    /\ ~recovering
    /\ durableBytes < Len(queue)
    /\ durableBytes' = Len(queue)
    /\ committedEntries' = pushedEntries
    /\ UNCHANGED <<queue, nextReadLocation, recovering, yielded, pushedEntries,
                   atCrash, crashes>>
    /\ UNCHANGED <<serverVars, rejoin, decoder, toolVars>>

\* the process dies and restarts: of the bytes pushed, a prefix that holds
\* at least those a commit covered is on disk
Crash(bytes) ==
    /\ crashes < MaxCrashes
    /\ bytes \in durableBytes..Len(queue)
    /\ queue' = SubSeq(queue, 1, bytes)
    /\ durableBytes' = bytes
    /\ nextReadLocation' = 0
    /\ recovering' = TRUE
    /\ yielded' = <<>>
    /\ atCrash' = [pushed |-> pushedEntries, committed |-> committedEntries]
    /\ crashes' = crashes + 1
    /\ UNCHANGED <<pushedEntries, committedEntries>>
    /\ UNCHANGED <<serverVars, rejoin, decoder, toolVars>>

\* one call of TLogQueue::readNext during recovery
TLogQueueReadNext ==
    /\ recovering
    /\ LET r == readNext(queue, nextReadLocation)
       IN  /\ nextReadLocation' = r.loc
           /\ IF r.found
              THEN /\ yielded' = Append(yielded, r.entry)
                   /\ UNCHANGED <<queue, recovering, pushedEntries>>
              ELSE /\ queue' = queue \o Zeros(r.zeroFillSize)
                   /\ recovering' = FALSE
                   /\ pushedEntries' = yielded
                   /\ UNCHANGED yielded
    /\ UNCHANGED <<durableBytes, committedEntries, atCrash, crashes>>
    /\ UNCHANGED <<serverVars, rejoin, decoder, toolVars>>

QueueNext ==
    \/ \E entry \in QueueEntries : TLogQueuePush(entry)
    \/ TLogQueueCommit
    \/ \E bytes \in 0..Len(queue) : Crash(bytes)
    \/ TLogQueueReadNext

QueueSpec == Init /\ [][QueueNext]_vars

\* -------------------------------------------------------- rejoinMasters

\* RecoveryState: the first state, one between, the last
RecoveryStates == {"UNINITIALIZED", "ACCEPTING_COMMITS", "FULLY_RECOVERED"}
RecoveryCounts == 0..2
InterfaceIDs == {1}
\* the recoveryCount (epoch) the interface was recruited with
Epochs == {1, 2}

\* what rejoinMasters reads of self->dbInfo->get()
DbInfos ==
    [recoveryCount : RecoveryCounts, recoveryState : RecoveryStates,
     priorCommittedLogServers : SUBSET InterfaceIDs, tLogs : SUBSET InterfaceIDs]

\* a displacement test that does not look at logSystemConfig
isDisplacedNoConfig(inf, id, recoveryCount, isPrimary) ==
    /\ id \notin inf.priorCommittedLogServers
    /\ IF isPrimary
       THEN /\ inf.recoveryCount >= recoveryCount
            /\ inf.recoveryState # "UNINITIALIZED"
       ELSE \/ /\ inf.recoveryCount > recoveryCount
               /\ inf.recoveryState # "UNINITIALIZED"
            \/ /\ inf.recoveryCount = recoveryCount
               /\ inf.recoveryState = "FULLY_RECOVERED"

\* rejoinMasters: bool isDisplaced
isDisplaced(inf, id, recoveryCount, isPrimary) ==
    /\ id \notin inf.priorCommittedLogServers
    /\ IF isPrimary
       THEN /\ inf.recoveryCount >= recoveryCount
            /\ inf.recoveryState # "UNINITIALIZED"
       ELSE \/ /\ inf.recoveryCount > recoveryCount
               /\ inf.recoveryState # "UNINITIALIZED"
            \/ /\ inf.recoveryCount = recoveryCount
               /\ inf.recoveryState = "FULLY_RECOVERED"
    /\ id \notin inf.tLogs

\* a rejoinMasters actor at the top of its loop
RejoinInit ==
    /\ InitServerAndQueue
    /\ decoder = NoDecoder /\ NoTools
    /\ rejoin \in [pc : {"loop"}, inf : DbInfos, tli : InterfaceIDs,
                   recoveryCount : Epochs, isPrimary : BOOLEAN]

\* rejoinMasters, one turn of its loop: throw worker_removed, or wait for
\* the next ServerDBInfo
RejoinMastersLoop ==
    /\ rejoin.pc = "loop"
    /\ rejoin' = [rejoin EXCEPT !.pc =
                     IF isDisplaced(rejoin.inf, rejoin.tli, rejoin.recoveryCount,
                                    rejoin.isPrimary)
                     THEN "worker_removed" ELSE "waiting"]
    /\ UNCHANGED <<serverVars, queueVars, decoder, toolVars>>

\* self->dbInfo->onChange()
DbInfoChange(inf) ==
    /\ rejoin.pc = "waiting"
    /\ inf # rejoin.inf
    /\ rejoin' = [rejoin EXCEPT !.inf = inf, !.pc = "loop"]
    /\ UNCHANGED <<serverVars, queueVars, decoder, toolVars>>

RejoinNext ==
    \/ RejoinMastersLoop
    \/ \E inf \in DbInfos : DbInfoChange(inf)

RejoinSpec == RejoinInit /\ [][RejoinNext]_vars

\* ------------------------------------------------ backup log file decoder

\* A file is a sequence of tokens: one token stands for each fixed-width
\* field (magic, lengths, version, part, mutation type) and for each byte of
\* a key or value.
BACKUP_AGENT_MLOG_VERSION == 2001
PaddingByte == 255
\* tokens of a record key (version, part), of a value's header
\* (includeVersion, val_length) and of a mutation's header (type, p1len, p2len)
KeySize == 2
ValueHeaderSize == 2
MutationHeaderSize == 3

MaxRecords == 3  \* records of a log file
MaxBlocks == 3   \* blocks of a log file
BlockSize == 15  \* file.blockSize: the magic and two of the largest records
LogVersions == {1, 2}
Parts == 0..2
\* a whole value without mutations, and the two halves of a value with one
\* mutation of type 1
Values == {<<0, 0>>, <<0, 3>>, <<1, 0, 0>>}
Records == [version : LogVersions, part : Parts, value : Values]

\* the writer's side: a record, a block with its padding, a file
EncodeRecord(r) ==
    <<KeySize, r.version, r.part, Len(r.value)>> \o r.value
RECURSIVE EncodeRecords(_)
EncodeRecords(rs) ==
    IF rs = <<>> THEN <<>> ELSE EncodeRecord(Head(rs)) \o EncodeRecords(Tail(rs))
EncodeBlock(rs, padded) ==
    LET b == <<BACKUP_AGENT_MLOG_VERSION>> \o EncodeRecords(rs)
    IN  IF padded THEN b \o [k \in 1..(BlockSize - Len(b)) |-> PaddingByte] ELSE b
RECURSIVE EncodeFile(_)
EncodeFile(bs) ==
    IF bs = <<>> THEN <<>>
    ELSE EncodeBlock(Head(bs), Len(bs) > 1) \o EncodeFile(Tail(bs))

\* the files that are decoded: up to MaxRecords records, in up to MaxBlocks
\* blocks of zero, one or two records each
RecordLists == UNION {[1..n -> Records] : n \in 0..MaxRecords}
BlockLengths == UNION {[1..n -> 0..2] : n \in 1..MaxBlocks}
RECURSIVE Sum(_)
Sum(ns) == IF ns = <<>> THEN 0 ELSE Head(ns) + Sum(Tail(ns))
\* the records rs cut into blocks of the lengths ns
RECURSIVE Cut(_, _)
Cut(rs, ns) ==
    IF ns = <<>> THEN <<>>
    ELSE <<SubSeq(rs, 1, Head(ns))>> \o Cut(SubSeq(rs, Head(ns) + 1, Len(rs)), Tail(ns))

Decoded(err, kvs) == [error |-> err, keyValues |-> kvs]

\* decode_block's loop over the key/value pairs, the reader being at `pos'
RECURSIVE decode_block_kvs(_, _, _)
decode_block_kvs(buf, pos, kvs) ==
    IF pos > Len(buf) \/ buf[pos] = PaddingByte
    THEN IF \A k \in pos..Len(buf) : buf[k] = PaddingByte
         THEN Decoded("none", kvs)
         ELSE Decoded("restore_corrupted_data_padding", kvs)
    ELSE LET kLen == buf[pos]
             vPos == pos + 1 + kLen
         IN  IF vPos > Len(buf) THEN Decoded("restore_corrupted_data", kvs)
             ELSE LET vLen == buf[vPos]
                      end == vPos + vLen
                  IN  IF end > Len(buf) THEN Decoded("restore_corrupted_data", kvs)
                      ELSE decode_block_kvs(buf, end + 1,
                               Append(kvs, [key |-> SubSeq(buf, pos + 1, pos + kLen),
                                            value |-> SubSeq(buf, vPos + 1, end)]))

\* DecodeProgress::decode_block
decode_block(buf) ==
    IF buf = <<>> THEN Decoded("restore_corrupted_data", <<>>)
    ELSE IF buf[1] # BACKUP_AGENT_MLOG_VERSION
    THEN Decoded("restore_unsupported_file_version", <<>>)
    ELSE decode_block_kvs(buf, 2, <<>>)

\* decode_key; its ASSERT on the key's size
decode_key(key) ==
    IF Len(key) # KeySize THEN [error |-> "internal_error", version |-> 0, part |-> 0]
    ELSE [error |-> "none", version |-> key[1], part |-> key[2]]

DecodedValue(err, ms) == [error |-> err, mutations |-> ms]

\* decode_value's loop over the mutations
RECURSIVE decode_value_mutations(_, _, _)
decode_value_mutations(value, pos, ms) ==
    IF pos > Len(value) THEN DecodedValue("none", ms)
    ELSE IF pos + MutationHeaderSize - 1 > Len(value)
    THEN DecodedValue("restore_corrupted_data", ms)
    ELSE LET p1len == value[pos + 1]
             p2len == value[pos + 2]
             kPos == pos + MutationHeaderSize
         IN  IF kPos + p1len + p2len - 1 > Len(value)
             THEN DecodedValue("restore_corrupted_data", ms)
             ELSE decode_value_mutations(value, kPos + p1len + p2len,
                      Append(ms, [type |-> value[pos],
                                  key |-> SubSeq(value, kPos, kPos + p1len - 1),
                                  val |-> SubSeq(value, kPos + p1len,
                                                 kPos + p1len + p2len - 1)]))

\* decode_value
decode_value(value) ==
    IF Len(value) < ValueHeaderSize THEN DecodedValue("restore_corrupted_data", <<>>)
    ELSE IF value[2] # Len(value) - ValueHeaderSize
    THEN DecodedValue("internal_error", <<>>)
    ELSE decode_value_mutations(value, ValueHeaderSize + 1, <<>>)

\* DecodeProgress::combineValues: the first idx values, in their order
RECURSIVE combineValues(_, _)
combineValues(kvs, idx) ==
    IF idx = 0 THEN <<>> ELSE combineValues(kvs, idx - 1) \o kvs[idx].value

\* DecodeProgress::finished
finished(d) == d.eof /\ d.keyValues = <<>>

\* DecodeProgress::readAndDecodeFile; fd->read returns the bytes asked for
readAndDecodeFile(d) ==
    LET len == Min(BlockSize, Len(d.file) - d.offset)
    IN  IF len = 0 THEN [d EXCEPT !.eof = TRUE]
        ELSE LET b == decode_block(SubSeq(d.file, d.offset + 1, d.offset + len))
             IN  IF b.error # "none" THEN [d EXCEPT !.pc = b.error]
                 ELSE [d EXCEPT !.keyValues = @ \o b.keyValues,
                                !.offset = @ + len]

\* what the loop of getNextBatchImpl comes to: the progress, and the number
\* of pairs of the batch
Scanned(d, idx) == [d |-> d, idx |-> idx]

\* getNextBatchImpl's loop: reads another block when the pairs run out and
\* checks that the parts of the version follow one another
RECURSIVE getNextBatchLoop(_, _, _, _)
getNextBatchLoop(d, version, idx, lastPart) ==
    LET d1 == IF idx = Len(d.keyValues) THEN readAndDecodeFile(d) ELSE d
    IN  IF d1.pc # "ready" \/ idx = Len(d1.keyValues) THEN Scanned(d1, idx)
        ELSE LET next == decode_key(d1.keyValues[idx + 1].key)
             IN  IF next.error # "none" THEN Scanned([d1 EXCEPT !.pc = next.error], idx)
                 ELSE IF version # next.version THEN Scanned(d1, idx)
                 ELSE IF lastPart + 1 # next.part
                 THEN Scanned([d1 EXCEPT !.pc = "restore_corrupted_data"], idx)
                 ELSE getNextBatchLoop(d1, version, idx + 1, lastPart + 1)

\* DecodeProgress::getNextBatchImpl with pairs in keyValues
getNextBatchImpl(d) ==
    LET first == decode_key(d.keyValues[1].key)
    IN  IF first.error # "none" THEN [d EXCEPT !.pc = first.error]
        ELSE IF first.part # 0 THEN [d EXCEPT !.pc = "internal_error"]
        ELSE LET s == getNextBatchLoop(d, first.version, 1, 0)
                 m == decode_value(IF s.idx > 1 THEN combineValues(s.d.keyValues, s.idx)
                                   ELSE d.keyValues[1].value)
             IN  IF s.d.pc # "ready" THEN s.d
                 ELSE IF m.error # "none" THEN [s.d EXCEPT !.pc = m.error]
                 ELSE [s.d EXCEPT
                          !.batches = Append(@, [version |-> first.version,
                                                 mutations |-> m.mutations,
                                                 first |-> d.consumed + 1,
                                                 size |-> s.idx]),
                          !.keyValues = SubSeq(@, s.idx + 1, Len(@)),
                          !.consumed = @ + s.idx]

\* what reading keyValues[0] of an empty vector can come to
UndefinedOutcomes == {"segmentation_fault", "internal_error", "garbage"}

\* a DecodeProgress constructed for a file, before openFile
DecodeInit ==
    /\ InitServerAndQueue
    /\ rejoin = NoRejoin /\ NoTools
    /\ \E rs \in RecordLists, ns \in BlockLengths :
          /\ Sum(ns) = Len(rs)
          /\ decoder = [pc |-> "open", file |-> EncodeFile(Cut(rs, ns)),
                        written |-> rs, blocks |-> ns, offset |-> 0, eof |-> FALSE,
                        keyValues |-> <<>>, batches |-> <<>>, consumed |-> 0]

\* decode_logs: progress.openFile(container)
OpenFile ==
    /\ decoder.pc = "open"
    /\ decoder' = readAndDecodeFile([decoder EXCEPT !.pc = "ready"])
    /\ UNCHANGED <<serverVars, queueVars, rejoin, toolVars>>

\* decode_logs: progress.getNextBatch() while !progress.finished()
GetNextBatch ==
    /\ decoder.pc = "ready"
    /\ ~finished(decoder)
    /\ IF decoder.keyValues = <<>>
       THEN \E o \in UndefinedOutcomes : decoder' = [decoder EXCEPT !.pc = o]
       ELSE decoder' = getNextBatchImpl(decoder)
    /\ UNCHANGED <<serverVars, queueVars, rejoin, toolVars>>

\* decode_logs: progress.finished() ends the loop over the file
DecodeLogsNextFile ==
    /\ decoder.pc = "ready"
    /\ finished(decoder)
    /\ decoder' = [decoder EXCEPT !.pc = "finished"]
    /\ UNCHANGED <<serverVars, queueVars, rejoin, toolVars>>

DecodeNext ==
    \/ OpenFile
    \/ GetNextBatch
    \/ DecodeLogsNextFile

DecodeSpec == DecodeInit /\ [][DecodeNext]_vars

\* ------------------------------------------------------------- the claims

\* the generations of group g that are not stopped
Active(g) == {l \in DOMAIN gen : l[2] = g /\ ~gen[l].stopped}

\* C1: in every reachable state each TLog group has at most one generation
\* with stopped = FALSE, whatever InitializeTLog requests arrived.
C1_OneActiveGenerationPerGroup ==
    \A g \in Groups : Cardinality(Active(g)) <= 1

\* the commit requests that tLogCommit has taken as not duplicate (appended)
\* on generation l
Appended(l) == {r \in DOMAIN reqs : reqs[r].l = l /\ reqs[r].isNotDuplicate}

\* request r is appended in this step
Appends(r) == ~reqs[r].isNotDuplicate /\ reqs'[r].isNotDuplicate

\* C2: a commit is appended only in a state where the generation's version
\* equals its prevVersion; the deque of a generation changes only by such an
\* append, which adds the request's version and messages at its end; and the
\* generation's version changes only by the version.set of an appended
\* commit, from that commit's prevVersion to its version, which is larger.
C2_VersionChain ==
    [][\A l \in DOMAIN gen :
          /\ \A r \in DOMAIN reqs :
                reqs[r].l = l /\ Appends(r) => gen[l].version = reqs[r].prevVersion
          /\ gen'[l].versionMessages # gen[l].versionMessages =>
                \E r \in DOMAIN reqs :
                   /\ reqs[r].l = l /\ Appends(r)
                   /\ gen'[l].versionMessages =
                         Append(gen[l].versionMessages,
                                [version |-> reqs[r].version,
                                 messages |-> reqs[r].messages])
          /\ gen'[l].version # gen[l].version =>
                \E r \in Appended(l) :
                   /\ gen[l].version = reqs[r].prevVersion
                   /\ gen'[l].version = reqs[r].version
                   /\ gen'[l].version > gen[l].version]_vars

\* C2's case: a generation on which two commits were appended one after the
\* other, the second from the version the first left
C2_Witness ==
    \E l \in DOMAIN gen : \E r1, r2 \in Appended(l) :
        /\ reqs[r1].prevVersion = 0
        /\ reqs[r2].prevVersion = reqs[r1].version
        /\ gen[l].version = reqs[r2].version
        /\ Len(gen[l].versionMessages) = 2

\* C3: a request with version V has a reply that is not an error only in
\* states where the queueCommittedVersion of its generation is at least V.
C3_ReplyAfterQueueCommit ==
    \A r \in DOMAIN reqs :
        reqs[r].reply.kind = "ok" =>
            gen[reqs[r].l].queueCommittedVersion >= reqs[r].version

\* C3's case: an appended commit whose queue commit was still to finish
\* when tLogCommit reached its wait has got its reply
C3_Witness ==
    \E r \in DOMAIN reqs :
        /\ reqs[r].reply.kind = "ok" /\ reqs[r].isNotDuplicate
        /\ \E d \in DOMAIN dqc :
              LogOf(d) = reqs[r].l /\ dqc[d].ver = reqs[r].version /\ dqc[d].pc = "done"

\* tLogCommit of request r decides in this step whether r is a duplicate
Decides(r) ==
    /\ Running("tc", "body") /\ Top.a.n = r
    /\ reqs'[r].pc \notin {"delay", "lag", "done"}

\* request r gets its reply in this step
Answered(r) == reqs[r].reply = NoReply /\ reqs'[r].reply # NoReply

\* C4: tLogCommit takes a request as a duplicate exactly when the
\* generation's version differs from the request's prevVersion at the check
\* that follows the waits; the step that finds a duplicate changes no
\* generation and no group (no deque, version or knownCommittedVersion); and
\* a reply to a duplicate that is not an error carries the generation's
\* durableKnownCommittedVersion of the state in which it is sent.
C4_Duplicate ==
    [][\A r \in DOMAIN reqs :
          /\ Decides(r) =>
                /\ reqs'[r].isNotDuplicate <=>
                      gen[reqs[r].l].version = reqs[r].prevVersion
                /\ ~reqs'[r].isNotDuplicate => gen' = gen /\ grp' = grp
          /\ Answered(r) /\ ~reqs[r].isNotDuplicate /\ reqs'[r].reply.kind = "ok" =>
                /\ reqs'[r].reply.version =
                      gen[reqs[r].l].durableKnownCommittedVersion
                /\ gen' = gen]_vars

\* C4's case: a duplicate that carried a larger knownCommittedVersion than
\* the generation's was answered, and the generation kept its own
C4_Witness ==
    \E r \in DOMAIN reqs :
        /\ reqs[r].reply.kind = "ok" /\ ~reqs[r].isNotDuplicate
        /\ reqs[r].knownCommittedVersion > gen[reqs[r].l].knownCommittedVersion
        /\ gen[reqs[r].l].version # reqs[r].prevVersion

\* r1 and r2 are the same commit request, sent twice to one generation
Same(r1, r2) ==
    /\ r1 < r2
    /\ reqs[r1].l # NoLog /\ reqs[r1].l = reqs[r2].l
    /\ reqs[r1].prevVersion = reqs[r2].prevVersion
    /\ reqs[r1].version = reqs[r2].version
    /\ reqs[r1].messages = reqs[r2].messages
    /\ reqs[r1].knownCommittedVersion = reqs[r2].knownCommittedVersion
    /\ reqs[r1].minKnownCommittedVersion = reqs[r2].minKnownCommittedVersion

\* the place of request r's reply in the order of the replies
Pos(r) == CHOOSE k \in DOMAIN replyLog : replyLog[k] = r

\* the entries of generation l's deque for version v
Entries(l, v) ==
    {k \in DOMAIN gen[l].versionMessages : gen[l].versionMessages[k].version = v}

\* C5 as stated: of a commit request sent twice to a generation at most one
\* is appended, the deque has at most one entry for its version, and the
\* two replies are equal.
C5_EqualReplies ==
    \A r1, r2 \in DOMAIN reqs :
        Same(r1, r2) =>
            /\ ~(reqs[r1].isNotDuplicate /\ reqs[r2].isNotDuplicate)
            /\ Cardinality(Entries(reqs[r1].l, reqs[r1].version)) <= 1
            /\ reqs[r1].reply # NoReply /\ reqs[r2].reply # NoReply =>
                  reqs[r1].reply = reqs[r2].reply

\* C5 amended: of a commit request sent twice to a generation at most one
\* is appended, the deque has at most one entry for its version, once one is
\* appended the generation's minKnownCommittedVersion is at least the
\* request's, and when both replies are successes the one sent later carries a
\* durableKnownCommittedVersion at least that of the one sent earlier.
C5_Deduplicated ==
    \A r1, r2 \in DOMAIN reqs :
        Same(r1, r2) =>
            /\ ~(reqs[r1].isNotDuplicate /\ reqs[r2].isNotDuplicate)
            /\ Cardinality(Entries(reqs[r1].l, reqs[r1].version)) <= 1
            /\ reqs[r1].isNotDuplicate \/ reqs[r2].isNotDuplicate =>
                  gen[reqs[r1].l].minKnownCommittedVersion >=
                      reqs[r1].minKnownCommittedVersion
            /\ reqs[r1].reply.kind = "ok" /\ reqs[r2].reply.kind = "ok" =>
                  \A x, y \in {r1, r2} :
                      Pos(x) < Pos(y) => reqs[x].reply.version <= reqs[y].reply.version

\* C5's case: a request with messages was sent twice, one was appended and
\* both were answered with a success
C5_Witness ==
    \E r1, r2 \in DOMAIN reqs :
        /\ Same(r1, r2)
        /\ reqs[r1].messages # <<>>
        /\ reqs[r1].isNotDuplicate \/ reqs[r2].isNotDuplicate
        /\ reqs[r1].reply.kind = "ok" /\ reqs[r2].reply.kind = "ok"
        /\ Cardinality(Entries(reqs[r1].l, reqs[r1].version)) = 1

\* tLogCommit of request r takes a step
Steps(r) ==
    /\ stack # <<>> /\ Top.k = "cont" /\ Top.a.t = "tc" /\ Top.a.n = r

\* C6 as stated: no step of the tLogCommit of an empty commit changes the
\* generation's version or its deque.
C6_EmptyKeepsVersion ==
    [][\A r \in DOMAIN reqs :
          reqs[r].messages = <<>> /\ Steps(r) =>
              /\ gen'[reqs[r].l].version = gen[reqs[r].l].version
              /\ gen'[reqs[r].l].versionMessages = gen[reqs[r].l].versionMessages]_vars

\* C6 amended: the append of an empty commit adds no entry to the deque and
\* no bytes to the group's input and queue commit counters, and its
\* version.set advances the generation's version to the request's version
\* as for any other commit.
C6_EmptyAdvancesVersion ==
    [][\A r \in DOMAIN reqs :
          reqs[r].messages = <<>> =>
              /\ Appends(r) =>
                    /\ gen'[reqs[r].l].versionMessages = gen[reqs[r].l].versionMessages
                    /\ grp'[reqs[r].l].bytesInput = grp[reqs[r].l].bytesInput
                    /\ grp'[reqs[r].l].diskQueueCommitBytes =
                          grp[reqs[r].l].diskQueueCommitBytes
              /\ Running("tc", "setVersion") /\ Top.a.n = r =>
                    /\ gen'[reqs[r].l].version = reqs[r].version
                    /\ gen'[reqs[r].l].version > gen[reqs[r].l].version
                    /\ gen'[reqs[r].l].versionMessages = gen[reqs[r].l].versionMessages]_vars

\* C6's case: an empty commit was appended and answered with a success; the
\* generation is at its version and the deque is empty
C6_Witness ==
    \E r \in DOMAIN reqs :
        /\ reqs[r].messages = <<>> /\ reqs[r].isNotDuplicate
        /\ reqs[r].reply.kind = "ok"
        /\ gen[reqs[r].l].version = reqs[r].version
        /\ gen[reqs[r].l].versionMessages = <<>>

\* C7: when a request has a success reply, every commit appended on the same
\* generation with a smaller version was answered before it.
C7_RepliesInVersionOrder ==
    \A r2 \in DOMAIN reqs :
        reqs[r2].reply.kind = "ok" =>
            \A r1 \in Appended(reqs[r2].l) :
                reqs[r1].version < reqs[r2].version =>
                    /\ reqs[r1].reply # NoReply
                    /\ Pos(r1) < Pos(r2)

\* request r arrives at the dispatcher in this step
Arrives(r) == r \notin DOMAIN reqs /\ r \in DOMAIN reqs'

\* C8: no commit is appended on a stopped generation, whose deque, version
\* and knownCommittedVersion no longer change; a commit that arrives at the
\* dispatcher for a stopped generation is answered tlog_stopped; a commit
\* that finds its generation stopped after the waits of tLogCommit is
\* answered tlog_stopped and changes no generation and no group; and a stop
\* of a generation answers tlog_stopped to the commits that wait for its
\* queue commit.
C8_StoppedNeverAppends ==
    [][/\ \A l \in DOMAIN gen :
             gen[l].stopped =>
                /\ \A r \in DOMAIN reqs : reqs[r].l = l => ~Appends(r)
                /\ gen'[l].versionMessages = gen[l].versionMessages
                /\ gen'[l].version = gen[l].version
                /\ gen'[l].knownCommittedVersion = gen[l].knownCommittedVersion
       /\ \A r \in DOMAIN reqs' :
             Arrives(r) /\ reqs'[r].l # NoLog /\ gen[reqs'[r].l].stopped =>
                reqs'[r].reply = Error("tlog_stopped") /\ gen' = gen /\ grp' = grp
       /\ \A r \in DOMAIN reqs :
             /\ Running("tc", "body") /\ Top.a.n = r /\ gen[reqs[r].l].stopped =>
                   reqs'[r].reply = Error("tlog_stopped") /\ gen' = gen /\ grp' = grp
             /\ /\ reqs[r].pc = "waitQueue"
                /\ ~gen[reqs[r].l].stopped /\ gen'[reqs[r].l].stopped
                /\ terminated' = "running"
                => reqs'[r].reply = Error("tlog_stopped")]_vars

\* C8's case: an appended commit that waited for the queue commit, and a
\* commit that had waited for the version of the first and found the
\* generation stopped after its delay, were both answered tlog_stopped
C8_Witness ==
    \E r1, r2 \in DOMAIN reqs :
        /\ reqs[r1].l = reqs[r2].l
        /\ reqs[r1].isNotDuplicate /\ reqs[r1].reply.kind = "tlog_stopped"
        /\ r2 < r1 /\ reqs[r2].prevVersion = reqs[r1].version
        /\ ~reqs[r2].isNotDuplicate /\ reqs[r2].reply.kind = "tlog_stopped"
        /\ gen[reqs[r1].l].version = reqs[r1].version
        /\ gen[reqs[r1].l].queueCommittedVersion < reqs[r1].version

\* the storage team of no generation of interface i
UnknownTeam(i, team) == \A l \in DOMAIN gen : l[1] = i => gen[l].team # team

\* C10: a commit whose storageTeamID is the team of no generation of the
\* interface is answered tlog_group_not_found in the step in which it
\* arrives, and that step changes no generation, no group and no interface,
\* which goes on serving.
C10_GroupNotFound ==
    [][\A r \in DOMAIN reqs' :
          Arrives(r) /\ UnknownTeam(reqs'[r].i, reqs'[r].storageTeamID) =>
             /\ reqs'[r].reply = Error("tlog_group_not_found")
             /\ gen' = gen /\ grp' = grp /\ tli' = tli
             /\ tli'[reqs'[r].i].serving /\ terminated' = "running"]_vars

\* C10's case: after a commit answered tlog_group_not_found the interface
\* took a commit for its team, appended it and answered it with a success
C10_Witness ==
    \E r1, r2 \in DOMAIN reqs :
        /\ r1 < r2 /\ reqs[r1].i = reqs[r2].i
        /\ reqs[r1].reply.kind = "tlog_group_not_found"
        /\ reqs[r2].isNotDuplicate /\ reqs[r2].reply.kind = "ok"

\* the steps the server takes by itself: the resumptions of an event, the
\* expiry of delays and the end of disk operations
Internal ==
    \/ \E l \in DOMAIN tgs : InitPersistentStateDone(l)
    \/ GroupStartTriggered
    \/ \E l \in DOMAIN tgs : RemoveLog(l)
    \/ \E i \in 1..MaxRecruit, g \in Groups : TLogCoreRemoved(i, g)
    \/ Resume
    \/ CommitQueueScan
    \/ CommitQueueInner
    \/ CommitQueueWhile
    \/ DoQueueCommitStarted
    \/ DoQueueCommitWaitEnd
    \/ \E d \in DOMAIN dqc : QueueCommitDelayExpires(d)
    \/ DoQueueCommitFinish
    \/ DoQueueCommitSetEnd
    \/ DoQueueCommitFinal
    \/ CommitYield
    \/ \E r \in DOMAIN reqs : CommitDelayExpires(r)
    \/ CommitBody
    \/ CommitSetVersion
    \/ CommitWait
    \/ CommitReply

\* the scheduler runs every actor that is ready, and every delay expires
SpecFair == Spec /\ WF_vars(Internal)

\* request r has no reply yet, and stopAllTLogs has stopped its generation
InFlightStopped(r) ==
    /\ r \in DOMAIN reqs
    /\ reqs[r].l # NoLog /\ reqs[r].reply = NoReply
    /\ gen[reqs[r].l].stopped
    /\ terminated = "running"

\* request r has its reply, or the server has ended
AnsweredOrEnded(r) ==
    /\ r \in DOMAIN reqs
    /\ reqs[r].reply # NoReply \/ terminated # "running"

\* C9: a commit request that is in flight on a generation that stopAllTLogs
\* has stopped eventually gets a reply (unless the whole server ends).
C9_InFlightAnswered ==
    \A r \in 1..MaxRequests : InFlightStopped(r) ~> AnsweredOrEnded(r)

\* C11: in every generation, stopped or not, the version the disk queue has
\* committed is at most the generation's version.
C11_QueueCommittedAtMostVersion ==
    \A l \in DOMAIN gen : gen[l].queueCommittedVersion <= gen[l].version

\* a queue commit has set the queueCommittedVersion of a generation that
\* was stopped later
C11_Witness ==
    \E l \in DOMAIN gen : gen[l].stopped /\ gen[l].queueCommittedVersion >= 1

\* C12: in every generation the known committed version is at most the
\* generation's version, whatever knownCommittedVersion the accepted commit
\* requests carry.
C12_KnownCommittedAtMostVersion ==
    Idle => \A l \in DOMAIN gen : gen[l].knownCommittedVersion <= gen[l].version

\* C13: in every generation the durable known committed version is at most
\* the version the disk queue has committed.
C13_DurableKnownCommittedAtMostQueueCommitted ==
    \A l \in DOMAIN gen :
        gen[l].durableKnownCommittedVersion <= gen[l].queueCommittedVersion

\* C14: a reply that is not an error and is sent in a state where the
\* generation's queueCommittedVersion has reached the version of an appended
\* commit carries a durableKnownCommittedVersion that is at least the
\* knownCommittedVersion of that commit.
C14_ReplyCoversKnownCommitted ==
    [][\A r \in DOMAIN reqs :
          Answered(r) /\ reqs'[r].reply.kind = "ok" =>
              \A q \in Appended(reqs[r].l) :
                  gen[reqs[r].l].queueCommittedVersion >= reqs[q].version =>
                      reqs'[r].reply.version >= reqs[q].knownCommittedVersion]_vars

\* a commit has its reply after an earlier commit of the generation that
\* carried a positive knownCommittedVersion was appended and queue committed
C14_Witness ==
    \E r, q \in DOMAIN reqs :
        /\ q < r /\ reqs[q].l = reqs[r].l
        /\ reqs[q].isNotDuplicate /\ reqs[q].knownCommittedVersion >= 1
        /\ reqs[r].reply.kind = "ok"
        /\ gen[reqs[r].l].queueCommittedVersion >= reqs[q].version

\* C15: in every generation the team's deque has no two entries with the
\* same version and its versions do not decrease from front to back,
\* whatever the interleaving of the commit requests and their repetitions.
C15_DequeVersionsIncrease ==
    \A l \in DOMAIN gen :
        \A j, k \in DOMAIN gen[l].versionMessages :
            j < k => gen[l].versionMessages[j].version < gen[l].versionMessages[k].version

\* two commits were appended to one deque while both were in flight: the
\* request that arrived first got its reply last
C15_Witness ==
    \E l \in DOMAIN gen :
        /\ Len(gen[l].versionMessages) = 2
        /\ \E r1, r2 \in Appended(l) :
              /\ r1 < r2
              /\ reqs[r1].reply.kind = "ok" /\ reqs[r2].reply.kind = "ok"
              /\ Pos(r1) > Pos(r2)

IsPrefix(s, t) == Len(s) <= Len(t) /\ SubSeq(t, 1, Len(s)) = s

\* the recovery that followed the last crash has thrown end_of_stream
Recovered == ~recovering /\ crashes > 0

\* C16: after pushes, a commit that returned and a crash that kept at least
\* the committed bytes, the calls of readNext up to end_of_stream return
\* every entry pushed before that commit, in the order pushed.
C16_CommittedEntriesRecovered ==
    Recovered => IsPrefix(atCrash.committed, yielded)

\* the committed entries came back from a second crash, which lost an entry
\* pushed after the commit
C16_Witness ==
    /\ Recovered
    /\ Len(atCrash.committed) >= 1
    /\ yielded = atCrash.committed
    /\ Len(atCrash.pushed) > Len(yielded)
    /\ crashes = 2

\* C17 as stated: after a crash at any byte offset, recovery returns exactly
\* the entries whose commit had returned.
C17_ExactlyCommitted ==
    Recovered => yielded = atCrash.committed

\* C17: after a crash at any byte offset, recovery returns the entries whose
\* commit had returned, followed by entries pushed after them whose packets
\* are whole on disk, in the order pushed; a packet written in part is never
\* returned.
C17_CommittedThenWhole ==
    /\ Recovered => IsPrefix(atCrash.committed, yielded)
    /\ IsPrefix(yielded, IF recovering THEN pushedEntries ELSE atCrash.pushed)

\* a crash inside the packet of the second entry, before any commit: the
\* first entry is returned, the second is not
C17_Witness ==
    /\ Recovered
    /\ Len(yielded) > Len(atCrash.committed)
    /\ Len(yielded) < Len(atCrash.pushed)
    /\ Len(queue) > nextReadLocation

\* the packet at read location loc: is its size field cut, are its payload
\* and valid flag cut, where does it end, is its valid flag 1
SizeCut(q, loc) == Len(q) - loc < sizeofUint32
SizeAt(q, loc) == FromBytes(SubSeq(q, loc + 1, Min(loc + sizeofUint32, Len(q))))
EndAt(q, loc) == loc + sizeofUint32 + SizeAt(q, loc) + 1
PayloadCut(q, loc) == ~SizeCut(q, loc) /\ Len(q) < EndAt(q, loc)
FlagNotSet(q, loc) ==
    ~SizeCut(q, loc) /\ ~PayloadCut(q, loc) /\ q[EndAt(q, loc)] # 1

\* the bytes q are whole packets from loc on
RECURSIVE WholePackets(_, _)
WholePackets(q, loc) ==
    IF loc = Len(q) THEN TRUE
    ELSE IF SizeCut(q, loc) \/ PayloadCut(q, loc) THEN FALSE
    ELSE WholePackets(q, EndAt(q, loc))

\* a call of readNext, and not a crash
ReadsNext == recovering /\ crashes' = crashes

\* the call returns no entry and throws end_of_stream, after it has filled
\* the queue with zeros up to the end of a packet
EndsWithZeroFill ==
    /\ yielded' = yielded
    /\ ~recovering'
    /\ \E n \in 0..(Len(queue) + sizeofUint32 + 1) : queue' = queue \o Zeros(n)
    /\ WholePackets(queue', 0)

\* C18 as stated: when the size field of the packet at the read location
\* is cut, or its payload and valid flag are cut, or its valid flag is not
\* 1, readNext fills with zeros up to a packet boundary and throws
\* end_of_stream, and returns no entry from that packet or from behind it.
C18_BadPacketEndsStream ==
    [][ReadsNext /\ (\/ SizeCut(queue, nextReadLocation)
                     \/ PayloadCut(queue, nextReadLocation)
                     \/ FlagNotSet(queue, nextReadLocation))
          => EndsWithZeroFill]_vars

\* C18: when the size field of the packet at the read location is cut, or
\* its payload and valid flag are cut, readNext fills with zeros up to a
\* packet boundary and throws end_of_stream without an entry; when the
\* packet is whole and its valid flag is 0, readNext returns no entry from
\* that packet and goes on with the packet behind it.
C18_CutPacketEndsStream ==
    [][ReadsNext =>
          /\ SizeCut(queue, nextReadLocation) \/ PayloadCut(queue, nextReadLocation)
                => EndsWithZeroFill
          /\ FlagNotSet(queue, nextReadLocation) =>
                /\ nextReadLocation' >= EndAt(queue, nextReadLocation)
                /\ \/ EndsWithZeroFill
                   \/ /\ nextReadLocation' > EndAt(queue, nextReadLocation)
                      /\ yielded' = Append(yielded, readNext(queue,
                                       EndAt(queue, nextReadLocation)).entry)
                      /\ UNCHANGED <<queue, recovering>>]_vars

\* readNext has gone over a packet that an earlier recovery filled with
\* zeros and has returned the entry behind it
C18_Witness ==
    /\ Recovered
    /\ \E loc \in 0..Len(queue) :
          /\ WholePackets(SubSeq(queue, 1, loc), 0)
          /\ FlagNotSet(queue, loc)
          /\ readNext(queue, loc).found
          /\ yielded # <<>> /\ yielded[Len(yielded)] = readNext(queue, loc).entry

\* C19: an InitializeTLog request with a recruitmentID that tLog has seen
\* creates no group and no generation, stops no generation, and is given
\* the interface that the first request with that recruitmentID is given.
C19_RecruitmentDeduplicated ==
    [][Len(forwards') > Len(forwards) =>
          /\ UNCHANGED <<tlogCache, tlogGroups, grp, gen, tli, cq, dqc, tgs>>
          /\ LET f == forwards'[Len(forwards')]
             IN  /\ f.interface \in DOMAIN tli
                 /\ tli[f.interface].recruitmentID = f.recruitmentID]_vars

\* the second recruitment was asked for again, with other groups, after its
\* interface had been sent, while a generation was active
C19_Witness ==
    \E k \in DOMAIN forwards :
        /\ forwards[k].recruitmentID = 2
        /\ tli[2].serving
        /\ forwards[k].tlogGroups # tli[2].tlogGroups
        /\ \E l \in DOMAIN gen : ~gen[l].stopped

\* C20: when a generation is recruited for a group that has an active
\* generation, stopAllTLogs has stopped that generation once the new one is
\* registered, so that the commits sent to it afterwards get tlog_stopped.
C20_PriorGenerationStopped ==
    [][Len(tlogCache') > Len(tlogCache) =>
          \A l \in DOMAIN gen :
              (\E n \in DOMAIN gen' \ DOMAIN gen : n[2] = l[2]) => gen'[l].stopped]_vars

\* the interface of the rejoinMasters actor is in neither list of the
\* ServerDBInfo
AbsentFromBoth ==
    /\ rejoin.tli \notin rejoin.inf.priorCommittedLogServers
    /\ rejoin.tli \notin rejoin.inf.tLogs

\* C21 as stated: rejoinMasters throws worker_removed only when the
\* interface is in neither list and the recoveryCount seen is larger than
\* the generation's, or equal to it in the state FULLY_RECOVERED.
C21_DisplacedOnlyWhenNewer ==
    rejoin.pc = "worker_removed" =>
        /\ AbsentFromBoth
        /\ \/ rejoin.inf.recoveryCount > rejoin.recoveryCount
           \/ /\ rejoin.inf.recoveryCount = rejoin.recoveryCount
              /\ rejoin.inf.recoveryState = "FULLY_RECOVERED"

\* when rejoinMasters throws worker_removed
DisplacedWhen ==
    /\ AbsentFromBoth
    /\ rejoin.inf.recoveryState # "UNINITIALIZED"
    /\ IF rejoin.isPrimary
       THEN rejoin.inf.recoveryCount >= rejoin.recoveryCount
       ELSE \/ rejoin.inf.recoveryCount > rejoin.recoveryCount
            \/ /\ rejoin.inf.recoveryCount = rejoin.recoveryCount
               /\ rejoin.inf.recoveryState = "FULLY_RECOVERED"

\* C21: rejoinMasters throws worker_removed exactly when the interface is
\* in neither list, the recovery state seen is not UNINITIALIZED and, for a
\* primary interface, the recoveryCount seen is at least the generation's;
\* for an interface that is not primary the recoveryCount seen is larger or
\* is equal in the state FULLY_RECOVERED.
C21_DisplacedPrimaryAtLeast ==
    /\ rejoin.pc = "worker_removed" => DisplacedWhen
    /\ rejoin.pc = "waiting" => ~DisplacedWhen

\* a primary interface is displaced with an equal recoveryCount before the
\* recovery is complete
C21_Witness ==
    /\ rejoin.pc = "worker_removed"
    /\ rejoin.isPrimary
    /\ rejoin.inf.recoveryCount = rejoin.recoveryCount
    /\ rejoin.inf.recoveryState = "ACCEPTING_COMMITS"

\* worker_removed reaches the tLogCore of interface i in this step: tLogCore
\* has started, and removeLog erases one of the interface's generations
ReachesTLogCore(i) ==
    /\ tli[i].removed # 0
    /\ \E g \in Range(tli[i].tlogGroups) :
          gen[<<i, g>>].inIdData /\ ~gen'[<<i, g>>].inIdData

\* C22: when worker_removed reaches the tLogCore of an interface, every
\* generation of the interface, one per recruited group, is stopped and
\* erased from its group's id_data.
C22_EveryGenerationRemoved ==
    [][\A i \in DOMAIN tli :
          ReachesTLogCore(i) =>
              \A g \in Range(tli[i].tlogGroups) :
                  gen'[<<i, g>>].stopped /\ ~gen'[<<i, g>>].inIdData]_vars

\* an interface of two groups was served and displaced
C22_Witness ==
    \E i \in DOMAIN tli :
        /\ tli[i].removed = i /\ tli[i].displaced
        /\ Len(tli[i].tlogGroups) = 2
        /\ terminated = "worker_removed"

\* tLogStart has sent the interface to the recruiter and started tLogCore
Recruited(i) == tli[i].removed # 0

\* the generation has its keys in persistentData, is initialized, has
\* recoveryComplete set and was found by its group's commitQueue loop
Started(l) ==
    /\ gen[l].persisted
    /\ gen[l].initialized
    /\ gen[l].recoveryComplete = "set"
    /\ gen[l].committingQueue = "set"

\* C23: the recruiter has the interface, and commits are served, only when
\* every generation of the recruitment has its persistent keys committed,
\* is initialized, has recoveryComplete set and was picked up by its
\* group's commitQueue; and no commit is appended to a generation that is
\* not initialized.
C23_ServedAfterStart ==
    /\ [](\A i \in DOMAIN tli :
            /\ tli[i].serving => Recruited(i)
            /\ Recruited(i) =>
                  \A g \in Range(tli[i].tlogGroups) : Started(<<i, g>>))
    /\ [][\A r \in DOMAIN reqs :
            Appends(r) => gen[reqs[r].l].initialized /\ tli[reqs[r].i].serving]_vars

\* an interface of two groups is served and a commit was appended to one of
\* its generations
C23_Witness ==
    \E i \in DOMAIN tli, r \in DOMAIN reqs :
        /\ tli[i].serving
        /\ Len(tli[i].tlogGroups) = 2
        /\ reqs[r].l[1] = i
        /\ reqs[r].isNotDuplicate

\* the records of the decoded file, as they were written
Written == decoder.written

\* the last record of the version group that starts at record p: the
\* records that follow it with the same version
RECURSIVE GroupEnd(_)
GroupEnd(p) ==
    IF p < Len(Written) /\ Written[p + 1].version = Written[p].version
    THEN GroupEnd(p + 1) ELSE p

\* the group that starts at record p has a first part other than 0, or two
\* records in a row whose parts do not follow one another
BadParts(p) ==
    \/ Written[p].part # 0
    \/ \E k \in p..(GroupEnd(p) - 1) : Written[k + 1].part # Written[k].part + 1

\* the values of the group that starts at record p, one after the other
RECURSIVE Stitched(_, _)
Stitched(p, q) == IF q < p THEN <<>> ELSE Stitched(p, q - 1) \o Written[q].value

\* getNextBatch has failed on the group that is at the front of keyValues
FailedAtGroup ==
    /\ decoder.pc \notin {"none", "open", "ready", "finished"}
    /\ decoder.keyValues # <<>>

\* C24: a version group whose first part is not 0, or whose parts have a
\* gap, fails with restore_corrupted_data, and no batch is made of it.
C24_BadPartsAreCorruptData ==
    /\ FailedAtGroup /\ BadParts(decoder.consumed + 1) =>
          decoder.pc = "restore_corrupted_data"
    /\ \A k \in DOMAIN decoder.batches : ~BadParts(decoder.batches[k].first)

\* C25: a batch made of a group with parts 0..k has the group's version,
\* takes its k+1 records and holds the mutations decoded from their values
\* in the order of the parts; the next batch starts at the record after
\* them; and a file of such groups is decoded to its end.
C25_OneBatchPerVersion ==
    /\ \A k \in DOMAIN decoder.batches :
          LET b == decoder.batches[k]
              q == GroupEnd(b.first)
          IN  /\ b.first = IF k = 1 THEN 1
                           ELSE decoder.batches[k - 1].first + decoder.batches[k - 1].size
              /\ ~BadParts(b.first) =>
                    /\ b.version = Written[b.first].version
                    /\ b.size = q - b.first + 1
                    /\ b.mutations = decode_value(Stitched(b.first, q)).mutations
    /\ (\A p \in DOMAIN Written :
            ~BadParts(p) /\ decode_value(Stitched(p, GroupEnd(p))).error = "none")
       => /\ decoder.pc \in {"open", "ready", "finished"}
          /\ decoder.pc = "finished" =>
                finished(decoder) /\ decoder.consumed = Len(Written)

\* the commit requests that were sent to generation l, in their order
RequestsTo(l) == ByNumber({r \in DOMAIN reqs : reqs[r].l = l})

\* the requests to generation l are chained by prevVersion: the first has
\* prevVersion 0, each next one the version of the one before it
Chained(l) ==
    LET rs == RequestsTo(l)
    IN  \A k \in DOMAIN rs :
            reqs[rs[k]].prevVersion = IF k = 1 THEN 0 ELSE reqs[rs[k - 1]].version

\* a generation of the interface of generation l was stopped, the interface
\* was displaced or removed, or the server has ended
StoppedOrDisplaced(l) ==
    \/ terminated # "running"
    \/ tli[l[1]].displaced
    \/ ~tli[l[1]].serving
    \/ \E g \in Range(tli[l[1]].tlogGroups) : gen[<<l[1], g>>].stopped

\* request r of a chain waits for its reply on a served generation
ChainedPending(r) ==
    /\ r \in DOMAIN reqs
    /\ reqs[r].l # NoLog /\ reqs[r].reply = NoReply
    /\ Chained(reqs[r].l)
    /\ ~StoppedOrDisplaced(reqs[r].l)

\* request r has a reply that is not an error
AnsweredOK(r) == r \in DOMAIN reqs /\ reqs[r].reply.kind = "ok"

\* request r is no longer in the case of C26
ChainEnded(r) ==
    /\ r \in DOMAIN reqs
    /\ reqs[r].l # NoLog
    /\ StoppedOrDisplaced(reqs[r].l) \/ ~Chained(reqs[r].l)

\* C26: a commit of a chain of commits to a served generation eventually
\* gets a reply that is not an error, unless the generation's interface is
\* stopped or displaced or the server ends first.
C26_ChainedCommitsAnswered ==
    \A r \in 1..MaxRequests : ChainedPending(r) ~> (AnsweredOK(r) \/ ChainEnded(r))

\* a storage server sends a TLogPeekRequest to the peekMessages stream of
\* interface i.  serveTLogInterface_PassivelyPull waits for dbInfo changes
\* and for tli.commit only: the request stays in the stream.
PeekRequest(i, team, beginVersion) ==
    /\ Idle
    /\ Len(peeks) < MaxPeeks
    /\ i \in DOMAIN tli /\ tli[i].serving
    /\ peeks' = Append(peeks, [i |-> i, storageTeamID |-> team,
                               beginVersion |-> beginVersion, reply |-> NoReply])
    /\ UNCHANGED <<tlogCache, tlogGroups, grp, gen, tli, cq, dqc, tgs, reqs,
                   replyLog, stack, terminated, forwards>>
    /\ UNCHANGED <<queueVars, rejoin, decoder, toolVars>>

\* prev is the prevVersion a proxy gives its next commit to generation l
NextInChain(l, prev) ==
    LET rs == RequestsTo(l)
    IN  prev = IF rs = <<>> THEN 0 ELSE reqs[rs[Len(rs)]].version

\* one recruitment, and a proxy that sends chained commits to the teams of
\* the recruited interface; nothing stops or displaces the interface
ChainNext ==
    \/ \E gl \in GroupLists : InitializeTLog(1, gl)
    \/ \E l \in DOMAIN tgs : InitPersistentStateDone(l)
    \/ GroupStartTriggered
    \/ Resume
    \/ CommitQueueScan
    \/ CommitQueueInner
    \/ CommitQueueWhile
    \/ DoQueueCommitStarted
    \/ DoQueueCommitWaitEnd
    \/ \E d \in DOMAIN dqc : QueueCommitDelayExpires(d)
    \/ DoQueueCommitFinish
    \/ DoQueueCommitSetEnd
    \/ DoQueueCommitFinal
    \/ \E i \in DOMAIN tli, team \in TeamIDs, prev \in Versions, ver \in Versions,
          k \in Payloads :
          /\ prev < ver
          /\ FindGeneration(i, team) # NoLog
          /\ NextInChain(FindGeneration(i, team), prev)
          /\ CommitRequest(i, team, prev, ver, k[1], k[2], k[3])
    \/ CommitYield
    \/ \E r \in DOMAIN reqs : CommitDelayExpires(r)
    \/ CommitBody
    \/ CommitSetVersion
    \/ CommitWait
    \/ CommitReply

ChainSpec == Init /\ [][ChainNext]_vars

\* the scheduler runs each actor that is ready, and each delay and each
\* disk operation ends, whatever the other actors do: a step that waits for
\* the running actor to return (Idle) is taken if it is enabled again and
\* again
ChainSpecFair ==
    /\ ChainSpec
    /\ \A l \in {1} \X Groups : SF_vars(InitPersistentStateDone(l))
    /\ WF_vars(GroupStartTriggered)
    /\ WF_vars(Resume)
    /\ WF_vars(CommitQueueScan)
    /\ WF_vars(CommitQueueInner)
    /\ WF_vars(CommitQueueWhile)
    /\ WF_vars(DoQueueCommitStarted)
    /\ WF_vars(DoQueueCommitWaitEnd)
    /\ \A l \in {1} \X Groups :
          SF_vars(\E d \in DOMAIN dqc : LogOf(d) = l /\ QueueCommitDelayExpires(d))
    /\ WF_vars(DoQueueCommitFinish)
    /\ WF_vars(DoQueueCommitSetEnd)
    /\ WF_vars(DoQueueCommitFinal)
    /\ WF_vars(CommitYield)
    /\ \A r \in 1..MaxRequests : SF_vars(CommitDelayExpires(r))
    /\ WF_vars(CommitBody)
    /\ WF_vars(CommitSetVersion)
    /\ WF_vars(CommitWait)
    /\ WF_vars(CommitReply)

\* one recruitment of the group G1, a proxy that sends chained commits to
\* its team, and a storage server that peeks the team
PeekNext ==
    \/ InitializeTLog(1, <<"G1">>)
    \/ \E l \in DOMAIN tgs : InitPersistentStateDone(l)
    \/ GroupStartTriggered
    \/ Resume
    \/ CommitQueueScan
    \/ CommitQueueInner
    \/ CommitQueueWhile
    \/ DoQueueCommitStarted
    \/ DoQueueCommitWaitEnd
    \/ \E d \in DOMAIN dqc : QueueCommitDelayExpires(d)
    \/ DoQueueCommitFinish
    \/ DoQueueCommitSetEnd
    \/ DoQueueCommitFinal
    \/ \E prev \in Versions, ver \in Versions, k \in Payloads :
          /\ prev < ver
          /\ 1 \in DOMAIN tli
          /\ NextInChain(FindGeneration(1, TeamOf(<<"G1">>, "G1")), prev)
          /\ CommitRequest(1, TeamOf(<<"G1">>, "G1"), prev, ver, k[1], k[2], k[3])
    \/ CommitYield
    \/ \E r \in DOMAIN reqs : CommitDelayExpires(r)
    \/ CommitBody
    \/ CommitSetVersion
    \/ CommitWait
    \/ CommitReply
    \/ \E beginVersion \in Versions : PeekRequest(1, TeamOf(<<"G1">>, "G1"), beginVersion)

PeekSpec == Init /\ [][PeekNext]_vars

\* the scheduler runs every actor that is ready, and every delay expires
PeekSpecFair == PeekSpec /\ WF_vars(Internal)

\* both commits of the chain (0, 1], (1, 2] to the team of peek p were
\* answered: the queue commit covers them
ChainCommitted(p) ==
    /\ p \in DOMAIN peeks
    /\ \E r1, r2 \in DOMAIN reqs :
          /\ reqs[r1].storageTeamID = peeks[p].storageTeamID
          /\ reqs[r2].storageTeamID = peeks[p].storageTeamID
          /\ reqs[r1].prevVersion = 0 /\ reqs[r1].version = reqs[r2].prevVersion
          /\ AnsweredOK(r1) /\ AnsweredOK(r2)

\* peek p has its reply
PeekAnswered(p) == p \in DOMAIN peeks /\ peeks[p].reply # NoReply

\* C27: a peek of a team whose two chained commits were queue-committed is
\* answered (with the messages of the team in the order of their versions).
C27_PeekServed ==
    \A p \in 1..MaxPeeks : ChainCommitted(p) ~> PeekAnswered(p)

\* doQueueCommit d begins in this step: its state variables are created
QueueCommitBegins(d) == d \notin DOMAIN dqc /\ d \in DOMAIN dqc'

\* doQueueCommit d completes in this step: it passes its ASSERT and sets
\* queueCommittedVersion
QueueCommitCompletes(d) ==
    /\ Running("dqc", "finish") /\ Top.a = d
    /\ terminated' # "assertion_failed"

\* C29: a queue commit takes version and knownCommittedVersion when it
\* begins, keeps them while it is in flight, and when it completes
\* queueCommittedVersion is that version and durableKnownCommittedVersion
\* that knownCommittedVersion, whatever later commits did to the generation.
C29_QueueCommitPublishesCaptured ==
    [][\A d \in DOMAIN dqc' :
          /\ QueueCommitBegins(d) =>
                /\ dqc'[d].ver = gen[LogOf(d)].version
                /\ dqc'[d].knownCommittedVersion = gen[LogOf(d)].knownCommittedVersion
          /\ d \in DOMAIN dqc =>
                /\ dqc'[d].ver = dqc[d].ver
                /\ dqc'[d].knownCommittedVersion = dqc[d].knownCommittedVersion
          /\ QueueCommitCompletes(d) =>
                /\ gen'[LogOf(d)].queueCommittedVersion = dqc[d].ver
                /\ gen'[LogOf(d)].durableKnownCommittedVersion
                      = dqc[d].knownCommittedVersion]_vars

\* C29 witness: a queue commit has just set queueCommittedVersion and the
\* durable known committed version to what it took at its start, while the
\* generation's version and knownCommittedVersion have both moved on.
C29_Witness ==
    /\ Running("dqc", "setEnd")
    /\ LET g == gen[LogOf(Top.a)]
           d == dqc[Top.a]
       IN  /\ g.version > d.ver
           /\ g.knownCommittedVersion > d.knownCommittedVersion
           /\ g.queueCommittedVersion = d.ver
           /\ g.durableKnownCommittedVersion = d.knownCommittedVersion

\* recruitments of the group G1, each of which stops the generations before
\* it, a proxy that sends chained commits, and the steps that stop, displace
\* and remove generations
DrainNext ==
    \/ \E rid \in 1..MaxRecruit : InitializeTLog(rid, <<"G1">>)
    \/ ActiveSharedChange
    \/ \E l \in DOMAIN tgs : InitPersistentStateDone(l)
    \/ GroupStartTriggered
    \/ \E l \in DOMAIN tgs : RemoveLog(l)
    \/ \E j \in 1..MaxRecruit : Displaced(j)
    \/ \E i \in 1..MaxRecruit : TLogCoreRemoved(i, "G1")
    \/ Resume
    \/ CommitQueueScan
    \/ CommitQueueInner
    \/ CommitQueueWhile
    \/ DoQueueCommitStarted
    \/ DoQueueCommitWaitEnd
    \/ \E d \in DOMAIN dqc : QueueCommitDelayExpires(d)
    \/ DoQueueCommitFinish
    \/ DoQueueCommitSetEnd
    \/ DoQueueCommitFinal
    \/ \E i \in DOMAIN tli, prev \in Versions, ver \in Versions, k \in Payloads :
          /\ prev < ver
          /\ FindGeneration(i, TeamOf(<<"G1">>, "G1")) # NoLog
          /\ NextInChain(FindGeneration(i, TeamOf(<<"G1">>, "G1")), prev)
          /\ CommitRequest(i, TeamOf(<<"G1">>, "G1"), prev, ver, k[1], k[2], k[3])
    \/ CommitYield
    \/ \E r \in DOMAIN reqs : CommitDelayExpires(r)
    \/ CommitBody
    \/ CommitSetVersion
    \/ CommitWait
    \/ CommitReply

DrainSpec == Init /\ [][DrainNext]_vars

\* the scheduler runs each actor that is ready, and each delay and each
\* disk operation ends, whatever the other actors do
DrainSpecFair ==
    /\ DrainSpec
    /\ \A l \in (1..MaxRecruit) \X {"G1"} :
          /\ SF_vars(InitPersistentStateDone(l))
          /\ SF_vars(RemoveLog(l))
          /\ SF_vars(TLogCoreRemoved(l[1], l[2]))
          /\ SF_vars(\E d \in DOMAIN dqc : LogOf(d) = l /\ QueueCommitDelayExpires(d))
    /\ WF_vars(GroupStartTriggered)
    /\ WF_vars(Resume)
    /\ WF_vars(CommitQueueScan)
    /\ WF_vars(CommitQueueInner)
    /\ WF_vars(CommitQueueWhile)
    /\ WF_vars(DoQueueCommitStarted)
    /\ WF_vars(DoQueueCommitWaitEnd)
    /\ WF_vars(DoQueueCommitFinish)
    /\ WF_vars(DoQueueCommitSetEnd)
    /\ WF_vars(DoQueueCommitFinal)
    /\ WF_vars(CommitYield)
    /\ \A r \in 1..MaxRequests : SF_vars(CommitDelayExpires(r))
    /\ WF_vars(CommitBody)
    /\ WF_vars(CommitSetVersion)
    /\ WF_vars(CommitWait)
    /\ WF_vars(CommitReply)

\* generation l is stopped with a version no queue commit has taken
StoppedUnflushed(l) ==
    /\ l \in DOMAIN gen /\ gen[l].stopped
    /\ gen[l].version > Max(gen[l].queueCommittingVersion, gen[l].queueCommittedVersion)

\* generation l is drained
Drained(l) == l \in DOMAIN gen /\ gen[l].queueCommittedVersion = gen[l].version

\* C30: a generation stopped with a version above queueCommittingVersion and
\* queueCommittedVersion is eventually drained, and the version of a stopped,
\* drained generation does not change.
C30_StoppedEventuallyDrained ==
    /\ \A l \in (1..MaxRecruit) \X {"G1"} : StoppedUnflushed(l) ~> Drained(l)
    /\ [][\A l \in DOMAIN gen :
             gen[l].stopped /\ Drained(l) => gen'[l].version = gen[l].version]_vars

\* the hard-limit test of tLogCommit's while, on the group of generation l
OverHardLimit(l) == grp[l].bytesInput - grp[l].bytesDurable >= TLOG_HARD_LIMIT_BYTES

\* the tLogCommit of request r evaluates the hard-limit loop in this step
AtHardLimitLoop(r) == Running("tc", "body") /\ Top.a.n = r

\* C31: while the group is at its hard limit and the generation is not
\* stopped, tLogCommit appends nothing, sends no reply and delays again; when
\* it finds the generation stopped it answers tlog_stopped and appends nothing.
C31_Backpressure ==
    [][\A r \in DOMAIN reqs :
          AtHardLimitLoop(r) =>
             LET l == reqs[r].l
             IN  /\ OverHardLimit(l) /\ ~gen[l].stopped =>
                       /\ gen'[l] = gen[l] /\ grp'[l] = grp[l]
                       /\ reqs'[r].pc = "lag" /\ reqs'[r].lagged
                       /\ reqs'[r].reply = NoReply
                 /\ gen[l].stopped =>
                       /\ gen'[l] = gen[l] /\ grp'[l] = grp[l]
                       /\ reqs'[r].reply = Error("tlog_stopped")]_vars

\* C31 witness: a request that waited in the hard-limit loop has been
\* answered tlog_stopped, and its version is not in the deque.
C31_Witness ==
    \E r \in DOMAIN reqs :
       /\ reqs[r].lagged
       /\ reqs[r].reply = Error("tlog_stopped")
       /\ reqs[r].messages # <<>>
       /\ ~reqs[r].isNotDuplicate
       /\ OverHardLimit(reqs[r].l)
       /\ \A k \in DOMAIN gen[reqs[r].l].versionMessages :
             gen[reqs[r].l].versionMessages[k].version # reqs[r].version

\* C32: the assertion of doQueueCommit never fails: every queue commit that
\* reaches its end finds ver above queueCommittedVersion and raises it.
C32_QueueCommitAssertionHolds ==
    /\ terminated # "assertion_failed"
    /\ \A d \in DOMAIN dqc :
          Running("dqc", "finish") /\ Top.a = d =>
              dqc[d].ver > gen[LogOf(d)].queueCommittedVersion


\* C33: the queue commits of a group complete in the order they began:
\* queueCommitEnd never passes queueCommitBegin, each completion raises
\* queueCommitEnd by one and is the completion of the commit with that
\* number, and a queue commit begins while another is in flight only when
\* largeDiskQueueCommitBytes is true.
C33_QueueCommitsInOrder ==
    /\ [](\A l \in DOMAIN grp : grp[l].queueCommitEnd <= grp[l].queueCommitBegin)
    /\ [][\A l \in DOMAIN grp :
             /\ grp'[l].queueCommitEnd # grp[l].queueCommitEnd =>
                   /\ grp'[l].queueCommitEnd = grp[l].queueCommitEnd + 1
                   /\ Running("dqc", "setEnd") /\ LogOf(Top.a) = l
                   /\ Top.a.n = grp'[l].queueCommitEnd
             /\ grp'[l].queueCommitBegin # grp[l].queueCommitBegin =>
                   /\ grp'[l].queueCommitBegin = grp[l].queueCommitBegin + 1
                   /\ grp[l].queueCommitBegin # grp[l].queueCommitEnd =>
                         grp[l].largeDiskQueueCommitBytes]_vars

\* C33 witness: two queue commits of a group have completed, the second
\* after the first and with the next version.
C33_Witness ==
    \E l \in DOMAIN grp :
       /\ grp[l].queueCommitEnd = 2
       /\ \E d1, d2 \in DOMAIN dqc :
             /\ LogOf(d1) = l /\ LogOf(d2) = l /\ d1.n = 1 /\ d2.n = 2
             /\ dqc[d1].pc = "done"
             /\ dqc[d2].pc = "done"
             /\ dqc[d2].ver > dqc[d1].ver

\* the messages of request r are in the deque of its generation under the
\* request's version
InDeque(r) ==
    \E k \in DOMAIN gen[reqs[r].l].versionMessages :
       gen[reqs[r].l].versionMessages[k] =
          [version |-> reqs[r].version, messages |-> reqs[r].messages]

\* C34: a commit request with messages that got a reply without an error has
\* its messages in the deque of its team under its version.
C34_AcknowledgedIsAppended ==
    \A r \in DOMAIN reqs :
       reqs[r].reply.kind = "ok" /\ reqs[r].messages # <<>> => InDeque(r)

\* a recovery of the bytes q from read location loc on: the entries the
\* calls of readNext return, and the zeroFillSize of the call that throws
\* end_of_stream
RECURSIVE Replay(_, _, _)
Replay(q, loc, acc) ==
    LET r == readNext(q, loc)
    IN  IF r.found THEN Replay(q, r.loc, Append(acc, r.entry))
        ELSE [entries |-> acc, zeroFillSize |-> r.zeroFillSize]

\* a recovery that would yield the entries es and fill nothing
CleanReplay(q, es) == Replay(q, 0, <<>>) = [entries |-> es, zeroFillSize |-> 0]

\* C35: when a recovery meets a cut last packet, its zero fill leaves whole
\* packets only, and a recovery run at once fills nothing and returns the
\* same entries; from then on a recovery of the queue returns the recovered
\* entries followed by the entries pushed since, never the filled packet, and
\* after the next crash the entries committed since are returned.
C35_ZeroFillLeavesWholePackets ==
    /\ [][ReadsNext /\ ~recovering' /\ ~WholePackets(queue, 0) =>
             /\ WholePackets(queue', 0)
             /\ CleanReplay(queue', yielded')
             /\ pushedEntries' = yielded']_vars
    /\ [](Recovered =>
             /\ WholePackets(queue, 0)
             /\ CleanReplay(queue, pushedEntries)
             /\ IsPrefix(atCrash.committed, yielded))

\* C35 witness: behind a packet that the recovery filled with zeros an entry
\* has been pushed and committed, and a recovery of the queue would return
\* the recovered entries and that entry.
C35_Witness ==
    /\ Recovered /\ crashes = 1
    /\ committedEntries = pushedEntries
    /\ Len(pushedEntries) > Len(yielded)
    /\ \E loc \in 0..Len(queue) :
          /\ WholePackets(SubSeq(queue, 1, loc), 0)
          /\ FlagNotSet(queue, loc)
          /\ EndAt(queue, loc) < Len(queue)
    /\ CleanReplay(queue, pushedEntries)

\* ------------------------------------------------------------ LCCV model

\* getCommitVersion adds randomInt64(10, 101) to writeVersion: the steps the
\* model takes are the smallest of these
VersionSteps == MIN_VERSION_STEP..(MIN_VERSION_STEP + MaxStepChoices - 1)

\* main: a SharedState, with the writes actor running
LccvInit ==
    /\ InitServerAndQueue
    /\ rejoin = NoRejoin /\ decoder = NoDecoder
    /\ backup = NoBackup /\ forget = NoForget
    /\ lccv = [pc |-> "run", writeVersion |-> 0, currentVersion |-> 0,
               requests |-> <<>>, samples |-> <<>>, failed |-> FALSE]

\* SharedState::getCommitVersion: (previous commit version, commit version)
getCommitVersion(st, step) ==
    [prevVersion |-> st.writeVersion, commitVersion |-> st.writeVersion + step]

\* writes, one turn of its loop: getCommitVersion and addWriteRequest, which
\* starts updateVersion_impl up to its wait(delay(req.duration))
Writes(step) ==
    /\ lccv.pc = "run" /\ ~lccv.failed
    /\ Len(lccv.requests) < MaxWrites
    /\ LET p == getCommitVersion(lccv, step)
       IN  lccv' = [lccv EXCEPT
                      !.writeVersion = p.commitVersion,
                      !.requests = Append(@, [prevVersion |-> p.prevVersion,
                                              commitVersion |-> p.commitVersion,
                                              pc |-> "delay", waited |-> FALSE])]
    /\ UNCHANGED <<serverVars, queueVars, rejoin, decoder, backup, forget>>

\* a wait that is ready whatever the version is
whenAtLeastReadyAlways(current, limit) == TRUE

\* currentVersion.whenAtLeast(limit) is ready
whenAtLeastReady(current, limit) == current >= limit

\* the requests whose wait on currentVersion a set resumes
Resumable(st) ==
    {i \in DOMAIN st.requests :
        /\ st.requests[i].pc = "waiting"
        /\ whenAtLeastReady(st.currentVersion, st.requests[i].prevVersion)}

RECURSIVE AfterWait(_, _)
RECURSIVE NotifiedSet(_)

\* updateVersion_impl after wait(currentVersion.whenAtLeast(prevVersion)):
\* the sample and currentVersion.set(commitVersion), or ASSERT(false)
AfterWait(st, i) ==
    IF st.currentVersion = st.requests[i].prevVersion
    THEN NotifiedSet([st EXCEPT !.currentVersion = st.requests[i].commitVersion,
                                !.samples = Append(@, i),
                                !.requests[i].pc = "done"])
    ELSE [st EXCEPT !.failed = TRUE, !.requests[i].pc = "done"]

\* NotifiedVersion::set: the waiters whose limit the version has reached are
\* resumed inside the call, the lowest limit first
NotifiedSet(st) ==
    IF st.failed \/ Resumable(st) = {} THEN st
    ELSE LET i == CHOOSE x \in Resumable(st) :
                     \A y \in Resumable(st) :
                        \/ st.requests[x].prevVersion < st.requests[y].prevVersion
                        \/ /\ st.requests[x].prevVersion = st.requests[y].prevVersion
                           /\ x <= y
         IN  NotifiedSet(AfterWait(st, i))

\* the processing delay of request i ends: updateVersion_impl goes on to its
\* wait on currentVersion and, if that is ready, to the update
UpdateVersionDelayEnds(i) ==
    /\ lccv.pc = "run" /\ ~lccv.failed
    /\ i \in DOMAIN lccv.requests /\ lccv.requests[i].pc = "delay"
    /\ lccv' = IF whenAtLeastReady(lccv.currentVersion, lccv.requests[i].prevVersion)
               THEN AfterWait(lccv, i)
               ELSE [lccv EXCEPT !.requests[i].pc = "waiting",
                                 !.requests[i].waited = TRUE]
    /\ UNCHANGED <<serverVars, queueVars, rejoin, decoder, backup, forget>>

LccvNext ==
    \/ \E step \in VersionSteps : Writes(step)
    \/ \E i \in 1..MaxWrites : UpdateVersionDelayEnds(i)

LccvSpec == LccvInit /\ [][LccvNext]_vars

\* C36: with the pairs getCommitVersion hands out and processing delays that
\* end in any order, no updateVersion fails its assertion, and currentVersion
\* takes the commit versions in the order they were handed out.
C36_VersionsUpdatedInOrder ==
    /\ ~lccv.failed
    /\ lccv.samples = [k \in 1..Len(lccv.samples) |-> k]
    /\ lccv.currentVersion =
          IF lccv.samples = <<>> THEN 0
          ELSE lccv.requests[Len(lccv.samples)].commitVersion
    /\ \A i \in DOMAIN lccv.requests :
          lccv.requests[i].pc = "done" <=> i <= Len(lccv.samples)

\* C36 witness: every request has updated the version, the last of them
\* after its delay had ended before that of the request before it.
C36_Witness ==
    /\ Len(lccv.samples) = MaxWrites
    /\ lccv.requests[MaxWrites].waited
    /\ lccv.requests[MaxWrites - 1].waited
    /\ lccv.currentVersion = lccv.writeVersion

\* --------------------------------------------------------- backup worker

\* the versions a backup worker pulls, from its startVersion on
BackupVersions == 1..MaxBackupVersion
\* the log epochs of the workers and of the log system
BackupEpochs == 1..MaxBackupEpoch

\* Optional<Version> endVersion: empty for the current epoch
NoEndVersion == [present |-> FALSE, version |-> 0]
EndVersions ==
    {NoEndVersion} \cup {[present |-> TRUE, version |-> v] : v \in BackupVersions}

\* AsyncVar<Reference<ILogSystem>> logSystem before backupWorker sets it
NoLogSystem == [valid |-> FALSE, oldestBackupEpoch |-> 0]

\* backupWorker: BackupData's constructor, uploadData up to its first wait
\* and pullAsyncData, which has no cursor while there is no log system
BackupInit ==
    /\ InitServerAndQueue
    /\ rejoin = NoRejoin /\ decoder = NoDecoder
    /\ lccv = NoLccv /\ forget = NoForget
    /\ \E end \in EndVersions, epoch \in BackupEpochs :
          backup = [pc |-> "run",
                    startVersion |-> 1,
                    endVersion |-> end,
                    backupEpoch |-> epoch,
                    minKnownCommittedVersion |-> invalidVersion,
                    savedVersion |-> invalidVersion,
                    lastSeenVersion |-> invalidVersion,
                    logSystem |-> NoLogSystem,
                    messages |-> <<>>,
                    pullFinished |-> FALSE,
                    upload |-> [pc |-> "delay", popVersion |-> invalidVersion,
                                numMsg |-> 0],
                    pull |-> [pc |-> "getMore", tagAt |-> 1],
                    dbInfoChanges |-> 0,
                    pops |-> <<>>, files |-> <<>>, progress |-> <<>>]

\* a worker that pops whatever the oldest backup epoch is
popDeferredNever(st) == FALSE

\* BackupData::pop: backupEpoch > oldest
popDeferred(st) == st.backupEpoch > st.logSystem.oldestBackupEpoch

\* BackupData::pop, with the pops the log system has been sent
BackupPop(st) ==
    IF popDeferred(st) THEN st
    ELSE [st EXCEPT !.pops = Append(@, st.savedVersion)]

\* BackupData::eraseMessagesAfterEndVersion
RECURSIVE eraseMessagesAfterEndVersion(_, _)
eraseMessagesAfterEndVersion(ms, ver) ==
    IF ms = <<>> THEN ms
    ELSE IF ms[Len(ms)] > ver
    THEN eraseMessagesAfterEndVersion(SubSeq(ms, 1, Len(ms) - 1), ver)
    ELSE ms

\* uploadData's for loop over messages: numMsg and popVersion
RECURSIVE CountMessages(_, _, _, _)
CountMessages(ms, maxPopVersion, popVersion, numMsg) ==
    IF numMsg = Len(ms) \/ ms[numMsg + 1] > maxPopVersion
    THEN [popVersion |-> popVersion, numMsg |-> numMsg]
    ELSE CountMessages(ms, maxPopVersion, Max(popVersion, ms[numMsg + 1]), numMsg + 1)

RECURSIVE UploadTurn(_)
RECURSIVE UploadAfterSave(_)

\* uploadData from the top of its loop to its next wait
UploadTurn(st) ==
    IF st.endVersion.present /\ st.savedVersion >= st.endVersion.version
    THEN [st EXCEPT !.messages = <<>>, !.upload.pc = "done"]
    ELSE IF st.messages = <<>>
    THEN UploadAfterSave([st EXCEPT !.upload.popVersion = Max(@, st.lastSeenVersion)])
    ELSE LET maxPopVersion == IF st.endVersion.present THEN st.endVersion.version
                              ELSE st.minKnownCommittedVersion
             c == CountMessages(st.messages, maxPopVersion, st.upload.popVersion, 0)
             counted == [st EXCEPT !.upload.popVersion = c.popVersion,
                                   !.upload.numMsg = c.numMsg]
         IN  IF c.numMsg > 0
             THEN [counted EXCEPT !.upload.pc = "saving"]
             ELSE UploadAfterSave(counted)

\* uploadData behind saveMutationsToFile: the end version of a finished
\* pull, saveProgress, and the wait at the end of the loop
UploadAfterSave(st) ==
    LET popVersion == IF st.pullFinished /\ st.messages = <<>>
                      THEN st.endVersion.version ELSE st.upload.popVersion
        s == [st EXCEPT !.upload.popVersion = popVersion]
    IN  IF popVersion > s.savedVersion
        THEN [s EXCEPT !.upload.pc = "progress"]
        ELSE IF ~s.pullFinished
        THEN [s EXCEPT !.upload.pc = "delay"]
        ELSE UploadTurn(s)

\* uploadDelay or pullFinished.onChange() is ready
UploadDelayEnds ==
    /\ backup.pc = "run" /\ backup.upload.pc = "delay"
    /\ backup' = UploadTurn(backup)
    /\ UNCHANGED <<serverVars, queueVars, rejoin, decoder, lccv, forget>>

\* saveMutationsToFile up to logFile->finish(): the messages [0, numMsg)
\* are appended to the file and erased
UploadFileWritten ==
    /\ backup.pc = "run" /\ backup.upload.pc = "saving"
    /\ backup' = [backup EXCEPT
                    !.files = Append(@, SubSeq(backup.messages, 1, backup.upload.numMsg)),
                    !.messages = SubSeq(@, backup.upload.numMsg + 1, Len(@)),
                    !.upload.pc = "finish"]
    /\ UNCHANGED <<serverVars, queueVars, rejoin, decoder, lccv, forget>>

\* logFile->finish() has returned
UploadFileFinished ==
    /\ backup.pc = "run" /\ backup.upload.pc = "finish"
    /\ backup' = UploadAfterSave(backup)
    /\ UNCHANGED <<serverVars, queueVars, rejoin, decoder, lccv, forget>>

\* saveProgress has committed: savedVersion, pop, and the end of the loop
UploadProgressSaved ==
    /\ backup.pc = "run" /\ backup.upload.pc = "progress"
    /\ LET saved == [backup EXCEPT
                       !.progress = Append(@, backup.upload.popVersion),
                       !.savedVersion = Max(backup.upload.popVersion, @)]
           popped == BackupPop(saved)
       IN  backup' = IF ~popped.pullFinished
                     THEN [popped EXCEPT !.upload.pc = "delay"]
                     ELSE UploadTurn(popped)
    /\ UNCHANGED <<serverVars, queueVars, rejoin, decoder, lccv, forget>>

\* the messages a peek cursor holds for the versions of S, in version order
PulledMessages(from, to, S) ==
    SelectSeq([k \in 1..(to - from) |-> from + k - 1], LAMBDA v : v \in S)

\* pullAsyncData, one turn of its loop behind r->getMore(): the cursor holds
\* messages of the versions S from tagAt on and stands at version
PullGetMore(version, S, minKnownCommitted) ==
    /\ backup.pc = "run" /\ backup.pull.pc = "getMore"
    /\ backup.logSystem.valid
    /\ version > backup.pull.tagAt
    /\ S \subseteq backup.pull.tagAt..(version - 1)
    /\ LET tagAt == Max(version, 0)
           pulled == [backup EXCEPT
                        !.minKnownCommittedVersion = Max(@, minKnownCommitted),
                        !.messages = @ \o PulledMessages(backup.pull.tagAt, version, S),
                        !.pull.tagAt = tagAt,
                        !.lastSeenVersion = Max(tagAt, @)]
       IN  backup' =
              IF backup.endVersion.present /\ tagAt > backup.endVersion.version
              THEN [pulled EXCEPT
                      !.messages = eraseMessagesAfterEndVersion(@, backup.endVersion.version),
                      !.pullFinished = TRUE,
                      !.pull.pc = "done"]
              ELSE [pulled EXCEPT !.pull.pc = "yield"]
    /\ UNCHANGED <<serverVars, queueVars, rejoin, decoder, lccv, forget>>

\* pullAsyncData: wait(yield()) has returned
PullYield ==
    /\ backup.pc = "run" /\ backup.pull.pc = "yield"
    /\ backup' = [backup EXCEPT !.pull.pc = "getMore"]
    /\ UNCHANGED <<serverVars, queueVars, rejoin, decoder, lccv, forget>>

\* backupWorker's dbInfoChange branch: a log system with the backup
\* locality is set and popped
BackupDbInfoChange(hasPseudoLocality, oldest) ==
    /\ backup.pc = "run" /\ backup.upload.pc # "done"
    /\ backup.dbInfoChanges < MaxDbInfoChanges
    /\ LET counted == [backup EXCEPT !.dbInfoChanges = @ + 1]
       IN  backup' =
              IF hasPseudoLocality
              THEN BackupPop([counted EXCEPT
                                !.logSystem = [valid |-> TRUE,
                                               oldestBackupEpoch |-> oldest]])
              ELSE counted
    /\ UNCHANGED <<serverVars, queueVars, rejoin, decoder, lccv, forget>>

\* checkRemoved throws worker_removed: backupWorker catches it and returns,
\* which cancels pullAsyncData and uploadData
BackupRemoved ==
    /\ backup.pc = "run" /\ backup.upload.pc # "done"
    /\ backup' = [backup EXCEPT !.pc = "removed"]
    /\ UNCHANGED <<serverVars, queueVars, rejoin, decoder, lccv, forget>>

\* the steps of uploadData that end a wait
UploadStep ==
    \/ UploadDelayEnds
    \/ UploadFileWritten
    \/ UploadFileFinished
    \/ UploadProgressSaved

BackupNext ==
    \/ UploadStep
    \/ \E version \in 1..(MaxBackupVersion + 1), S \in SUBSET BackupVersions,
          minKnownCommitted \in BackupVersions :
          PullGetMore(version, S, minKnownCommitted)
    \/ PullYield
    \/ \E hasPseudoLocality \in BOOLEAN, oldest \in BackupEpochs :
          BackupDbInfoChange(hasPseudoLocality, oldest)
    \/ BackupRemoved

BackupSpec == BackupInit /\ [][BackupNext]_vars

\* every wait of uploadData ends: the delay expires, the file operations
\* and the transaction of saveProgress complete
BackupSpecFair ==
    /\ BackupSpec
    /\ WF_vars(UploadDelayEnds)
    /\ WF_vars(UploadFileWritten)
    /\ WF_vars(UploadFileFinished)
    /\ WF_vars(UploadProgressSaved)

\* C37: a backup worker sends no pop while its backupEpoch is above the log
\* system's oldest backup epoch, each pop it sends is at its savedVersion,
\* and savedVersion never decreases.
C37_PopAtSavedVersion ==
    [][/\ backup'.savedVersion >= backup.savedVersion
       /\ backup'.pops # backup.pops =>
             /\ backup'.logSystem.valid
             /\ backup.backupEpoch <= backup'.logSystem.oldestBackupEpoch
             /\ backup'.pops = Append(backup.pops, backup'.savedVersion)]_vars

\* C37 witness: a pop was deferred when progress was saved under an older
\* oldest backup epoch, and a later pop was sent at the saved version.
C37_Witness ==
    /\ Len(backup.progress) >= 2
    /\ Len(backup.pops) = 1
    /\ backup.pops[1] = backup.savedVersion
    /\ backup.savedVersion > 0

\* the pull has seen a version past the worker's end version
PulledBeyondEnd ==
    /\ backup.endVersion.present
    /\ backup.lastSeenVersion > backup.endVersion.version

\* uploadData has saved progress at the end version and has returned with
\* no message left
UploadedToEnd ==
    /\ backup.upload.pc = "done"
    /\ backup.messages = <<>>
    /\ backup.progress # <<>>
    /\ backup.progress[Len(backup.progress)] = backup.endVersion.version
    /\ backup.savedVersion = backup.endVersion.version

\* C38: a worker with an end version writes no message of a later version
\* to a file and saves no progress past the end version, and once the pull
\* has seen a later version uploadData saves progress at the end version and
\* returns with an empty queue (unless the worker is removed first).
C38_UploadEndsAtEndVersion ==
    /\ [](backup.endVersion.present =>
             /\ \A f \in DOMAIN backup.files : \A k \in DOMAIN backup.files[f] :
                   backup.files[f][k] <= backup.endVersion.version
             /\ \A p \in DOMAIN backup.progress :
                   backup.progress[p] <= backup.endVersion.version)
    /\ PulledBeyondEnd ~> (UploadedToEnd \/ backup.pc = "removed")

\* ------------------------------------------------ TLogQueue::forgetBefore

\* the versions TLogQueue::push enters into versionLocation
ForgetVersions == 1..MaxForgetVersion

\* versionLocation.end(), behind every key
versionLocationEnd == MaxForgetVersion + 1

\* a generation whose versionLocation is empty
ForgetInit ==
    /\ InitServerAndQueue
    /\ rejoin = NoRejoin /\ decoder = NoDecoder
    /\ lccv = NoLccv /\ backup = NoBackup
    /\ forget = [pc |-> "pushed", versionLocation |-> {}, before |-> {},
                 upToVersion |-> 0]

\* Map::begin: the smallest key, end() in an empty map
versionLocationBegin(keys) ==
    IF keys = {} THEN versionLocationEnd
    ELSE CHOOSE k \in keys : \A o \in keys : k <= o

\* Map::lastItem: the greatest key
versionLocationLastItem(keys) == CHOOSE k \in keys : \A o \in keys : k >= o

\* Map::lower_bound: the first key >= version, end() if there is none
versionLocationLowerBound(keys, version) ==
    versionLocationBegin({k \in keys : k >= version})

\* iterator::decrementNonEnd: the key before it
decrementNonEnd(keys, it) == versionLocationLastItem({k \in keys : k < it})

\* Map::erase(begin, end): the keys of [begin, end) are removed
versionLocationErase(keys, first, last) ==
    keys \ {k \in keys : k >= first /\ k < last}

\* TLogQueue::forgetBefore
forgetBefore(keys, upToVersion) ==
    LET v == versionLocationLowerBound(keys, upToVersion)
    IN  IF v = versionLocationBegin(keys) THEN keys
        ELSE LET previous == IF v = versionLocationEnd
                             THEN versionLocationLastItem(keys)
                             ELSE decrementNonEnd(keys, v)
             IN  versionLocationErase(keys, versionLocationBegin(keys), previous)

\* TLogQueue::push: versionLocation[qe.version] is entered, versions grow
ForgetPush(version) ==
    /\ forget.pc # "none"
    /\ \A k \in forget.versionLocation : k < version
    /\ forget' = [forget EXCEPT !.pc = "pushed",
                                !.versionLocation = @ \cup {version}]
    /\ UNCHANGED <<serverVars, queueVars, rejoin, decoder, lccv, backup>>

\* a call of TLogQueue::forgetBefore(upToVersion, logData)
ForgetBefore(upToVersion) ==
    /\ forget.pc # "none"
    /\ forget' = [pc |-> "forgot",
                  versionLocation |-> forgetBefore(forget.versionLocation, upToVersion),
                  before |-> forget.versionLocation,
                  upToVersion |-> upToVersion]
    /\ UNCHANGED <<serverVars, queueVars, rejoin, decoder, lccv, backup>>

ForgetNext ==
    \/ \E version \in ForgetVersions : ForgetPush(version)
    \/ \E upToVersion \in 0..(MaxForgetVersion + 1) : ForgetBefore(upToVersion)

ForgetSpec == ForgetInit /\ [][ForgetNext]_vars

\* C39: after forgetBefore(upToVersion) every key left in versionLocation
\* is >= upToVersion, and no entry with a key >= upToVersion was removed.
C39_ForgetBeforeKeepsFromVersion ==
    forget.pc = "forgot" =>
       /\ \A k \in forget.versionLocation : k >= forget.upToVersion
       /\ \A k \in forget.before :
             k >= forget.upToVersion => k \in forget.versionLocation

====
